---- MODULE Spec2Model ----
(***************************************************************************)
(* Payment gateway: payment creation, crypto proof verification and the    *)
(* webhook reconciler, modelled from src/src/services/payment_processor.rs,*)
(* src/src/api/handlers/{webhooks,crypto}.rs and the repositories under    *)
(* src/src/db/repositories.                                                *)
(*                                                                         *)
(* The database is the state: payments, transactions, addresses and        *)
(* webhook_events are the four tables, a row's id is its index (ids are    *)
(* fresh Uuid::new_v4 values, so insertion order identifies a row and is   *)
(* also the created_at order).  Every handler is one atomic action that    *)
(* runs at clock value now + 1; every Utc::now() it evaluates yields that  *)
(* value.  The persistence collaborator is taken to be available: a query  *)
(* on an existing row succeeds.  response records the last request and     *)
(* what the handler answered.  executions holds the verifications that     *)
(* are in flight where two requests are interleaved at their await points. *)
(***************************************************************************)
EXTENDS Integers, Sequences, FiniteSets, TLC

VARIABLES payments, transactions, addresses, webhook_events, now, response,
          executions

vars == <<payments, transactions, addresses, webhook_events, now, response,
          executions>>

(***************************************************************************)
(* Bounds of the model.                                                    *)
(***************************************************************************)
MaxPayments == 2
MaxEvents == 2
MaxOps == 3

(***************************************************************************)
(* Option::None / SQL NULL, per column type.                               *)
(***************************************************************************)
NULL == "NULL"
NoTime == 0
NoPayment == 0
NoEvent == 0
NoBlock == 0
NoFee == 0
NoSignature == <<>>

(***************************************************************************)
(* Enumerations of src/src/models.                                         *)
(***************************************************************************)
PaymentStatus ==
    {"pending", "processing", "completed", "failed", "cancelled", "refunded", "expired"}

RazorpayMethods == {"card", "upi", "net_banking", "wallet", "emi"}
EvmMethods == {"ethereum", "polygon", "bsc", "arbitrum"}
PaymentMethod == RazorpayMethods \cup EvmMethods \cup {"solana", "lightning"}

CurrencyType == {"INR", "USD", "EUR", "ETH", "MATIC", "BNB", "SOL", "BTC", "USDT", "USDC"}

ChainType == {"ethereum", "polygon", "bsc", "arbitrum", "solana", "bitcoin"}

WebhookStatus == {"received", "processing", "processed", "failed", "ignored"}

(***************************************************************************)
(* Configuration.  Amounts are integers in the chain's smallest unit; the  *)
(* model scales one native coin (10^18 wei, 10^9 lamports) down to         *)
(* WeiPerEth and LamportsPerSol units and the 53-bit significand of an f64 *)
(* down to F64Precision bits, keeping their order: 10^9 * 100 < 2^53 <     *)
(* 10^18, so a lamport above a tier is visible to an f64 and a wei is not. *)
(***************************************************************************)
WeiPerEth == 1000
LamportsPerSol == 4
F64Precision == 9
WebhookSecret == "whsec"
KeyId == "rzp_key_id"
\* chains with a non-empty rpc_url: Ethereum is mandatory, the others optional
ConfiguredEvmChains == {"ethereum", "polygon"}
WsBroadcasterPresent == TRUE

(***************************************************************************)
(* PaymentRepository                                                       *)
(***************************************************************************)
\* a payments row as the INSERT of PaymentRepository::create writes it:
\* every optional column NULL
PaymentRow(request, status, t) ==
    [amount                 |-> request.amount,
     currency               |-> request.currency,
     method                 |-> request.method,
     status                 |-> status,
     razorpay_payment_id    |-> NULL,
     razorpay_order_id      |-> NULL,
     razorpay_signature     |-> NULL,
     crypto_tx_hash         |-> NULL,
     crypto_from_address    |-> NULL,
     crypto_to_address      |-> NULL,
     crypto_chain           |-> NULL,
     lightning_invoice      |-> NULL,
     lightning_payment_hash |-> NULL,
     completed_at           |-> NoTime,
     updated_at             |-> t]

\* mutant: the row is inserted as Processing
PaymentRepository_create_processing(request, t) ==
    PaymentRow(request, "processing", t)

\* PaymentRepository::create: INSERT ... status = PaymentStatus::Pending
PaymentRepository_create(request, t) ==
    PaymentRow(request, "pending", t)

COALESCE(a, b) == IF a # NULL THEN a ELSE b

\* mutant: the UPDATE has no WHERE id = $1 and writes every row
PaymentRepository_update_status_every_row(db, id, status, t) ==
    [i \in 1..Len(db) |->
        [db[i] EXCEPT !.status = status,
                      !.completed_at = IF status = "completed" THEN t ELSE @,
                      !.updated_at = t]]

\* mutant: a refund also clears the amount of the row
PaymentRepository_update_status_clears_amount(db, id, status, t) ==
    [db EXCEPT ![id] =
        [@ EXCEPT !.status = status,
                  !.amount = IF status = "refunded" THEN 0 ELSE @,
                  !.completed_at = IF status = "completed" THEN t ELSE @,
                  !.updated_at = t]]

\* UPDATE payments SET status, completed_at = COALESCE($3, completed_at), updated_at
PaymentRepository_update_status(db, id, status, t) ==
    [db EXCEPT ![id] =
        [@ EXCEPT !.status = status,
                  !.completed_at = IF status = "completed" THEN t ELSE @,
                  !.updated_at = t]]

\* UPDATE payments SET razorpay_order_id, razorpay_payment_id, razorpay_signature, updated_at
PaymentRepository_update_razorpay_details(db, id, order_id, payment_id, signature, t) ==
    [db EXCEPT ![id] =
        [@ EXCEPT !.razorpay_order_id = order_id,
                  !.razorpay_payment_id = payment_id,
                  !.razorpay_signature = signature,
                  !.updated_at = t]]

\* UPDATE payments SET crypto_* = COALESCE($n, crypto_*), updated_at
PaymentRepository_update_crypto_details(db, id, tx_hash, from_address, to_address, chain, t) ==
    [db EXCEPT ![id] =
        [@ EXCEPT !.crypto_tx_hash = COALESCE(tx_hash, @),
                  !.crypto_from_address = COALESCE(from_address, @),
                  !.crypto_to_address = COALESCE(to_address, @),
                  !.crypto_chain = COALESCE(chain, @),
                  !.updated_at = t]]

\* UPDATE payments SET lightning_invoice, lightning_payment_hash, updated_at
PaymentRepository_update_lightning_details(db, id, invoice, payment_hash, t) ==
    [db EXCEPT ![id] =
        [@ EXCEPT !.lightning_invoice = invoice,
                  !.lightning_payment_hash = payment_hash,
                  !.updated_at = t]]

\* SELECT ... WHERE razorpay_order_id = $1 (fetch_optional: the first row)
PaymentRepository_find_by_razorpay_order_id(db, order_id) ==
    LET hits == {i \in DOMAIN db : db[i].razorpay_order_id = order_id}
    IN  IF hits = {} THEN NoPayment
        ELSE CHOOSE i \in hits : \A j \in hits : i <= j

\* SELECT ... WHERE crypto_to_address = $1 AND crypto_chain = $2
\*   AND status = 'pending' ORDER BY created_at DESC LIMIT 1
PaymentRepository_find_pending_by_crypto_address(db, address, chain) ==
    LET hits == {i \in DOMAIN db : /\ db[i].crypto_to_address = address
                                   /\ db[i].crypto_chain = chain
                                   /\ db[i].status = "pending"}
    IN  IF hits = {} THEN NoPayment
        ELSE CHOOSE i \in hits : \A j \in hits : i >= j

(***************************************************************************)
(* AddressRepository, TransactionRepository, WebhookRepository             *)
(***************************************************************************)
\* INSERT INTO crypto_addresses ... is_active = true
AddressRepository_create(address, chain, payment_id, expected_amount) ==
    [address         |-> address,
     chain           |-> chain,
     payment_id      |-> payment_id,
     expected_amount |-> expected_amount,
     is_active       |-> TRUE]

\* UPDATE crypto_addresses SET is_active = false WHERE id
AddressRepository_deactivate(addrs, id) ==
    [addrs EXCEPT ![id] = [@ EXCEPT !.is_active = FALSE]]

\* INSERT INTO transactions ... status = Pending, confirmations = 0
TransactionRepository_create(payment_id, amount, currency, chain, required_confirmations, t) ==
    [payment_id             |-> payment_id,
     tx_type                |-> "payment",
     status                 |-> "pending",
     amount                 |-> amount,
     fee                    |-> NoFee,
     currency               |-> currency,
     chain                  |-> chain,
     tx_hash                |-> NULL,
     block_number           |-> NoBlock,
     confirmations          |-> 0,
     required_confirmations |-> required_confirmations,
     from_address           |-> NULL,
     to_address             |-> NULL,
     error_message          |-> NULL,
     created_at             |-> t,
     updated_at             |-> t]

\* UPDATE transactions SET status, error_message, updated_at WHERE id
TransactionRepository_update_status(txns, id, status, error_message, t) ==
    [txns EXCEPT ![id] = [@ EXCEPT !.status = status,
                                   !.error_message = error_message,
                                   !.updated_at = t]]

\* UPDATE transactions SET tx_hash, block_number, from_address, to_address,
\* fee, updated_at WHERE id
TransactionRepository_update_blockchain_details(txns, id, tx_hash, block_number, from_address, to_address, fee, t) ==
    [txns EXCEPT ![id] = [@ EXCEPT !.tx_hash = tx_hash,
                                   !.block_number = block_number,
                                   !.from_address = from_address,
                                   !.to_address = to_address,
                                   !.fee = fee,
                                   !.updated_at = t]]

\* UPDATE transactions SET confirmations = $2, status = $3, updated_at WHERE id
TransactionRepository_update_confirmations(txns, id, confirmations, status, t) ==
    [txns EXCEPT ![id] = [@ EXCEPT !.confirmations = confirmations,
                                   !.status = status,
                                   !.updated_at = t]]

\* SELECT ... WHERE status = 'confirming' AND tx_hash IS NOT NULL
TransactionRepository_find_pending_confirmations(txns) ==
    {i \in 1..Len(txns) : txns[i].status = "confirming" /\ txns[i].tx_hash # NULL}

\* INSERT INTO webhook_events ... status = Received, signature_verified = false
WebhookRepository_create(source, event_type, signature) ==
    [source             |-> source,
     event_type         |-> event_type,
     signature          |-> signature,
     status             |-> "received",
     signature_verified |-> FALSE,
     payment_id         |-> NoPayment,
     error_message      |-> NULL,
     processed_at       |-> NoTime]

\* mutant: the UPDATE is not restricted to the row of the id
WebhookRepository_update_status_every_row(events, id, status, signature_verified, payment_id, error_message, t) ==
    [i \in 1..Len(events) |->
        [events[i] EXCEPT !.status = status,
                          !.signature_verified = signature_verified,
                          !.payment_id = payment_id,
                          !.error_message = error_message,
                          !.processed_at = IF status \in {"processed", "failed"} THEN t
                                           ELSE NoTime]]

\* UPDATE webhook_events SET status, signature_verified, payment_id,
\*   error_message, processed_at
WebhookRepository_update_status(events, id, status, signature_verified, payment_id, error_message, t) ==
    [events EXCEPT ![id] =
        [@ EXCEPT !.status = status,
                  !.signature_verified = signature_verified,
                  !.payment_id = payment_id,
                  !.error_message = error_message,
                  !.processed_at = IF status \in {"processed", "failed"} THEN t ELSE NoTime]]

(***************************************************************************)
(* Confirmation policy                                                     *)
(***************************************************************************)
\* an f64 is m * 2^q with m < 2^F64Precision
F64Value(m, q) == [m |-> m, q |-> q]

\* n/d >= 2^e, for n, d > 0
AtLeastPow2(n, d, e) ==
    IF e >= 0 THEN n >= d * 2^e ELSE n * 2^(0 - e) >= d

\* the exponent of the leading bit of n/d
LeadingExponent(n, d) ==
    CHOOSE e \in -12..20 : AtLeastPow2(n, d, e) /\ ~AtLeastPow2(n, d, e + 1)

\* num/den rounded to the nearest integer, ties to even
RoundHalfEven(num, den) ==
    LET fl == num \div den
        twice == 2 * (num % den)
    IN  IF twice > den \/ (twice = den /\ fl % 2 = 1) THEN fl + 1 ELSE fl

\* the f64 nearest to n/d: what str::parse::<f64> gives for the decimal
\* string of n/d and what the f64 division n / d gives
F64Round(n, d) ==
    IF n = 0 THEN F64Value(0, 0)
    ELSE LET q == LeadingExponent(n, d) - (F64Precision - 1)
         IN  IF q >= 0 THEN F64Value(RoundHalfEven(n, d * 2^q), q)
             ELSE F64Value(RoundHalfEven(n * 2^(0 - q), d), q)

\* `n as f64` for an integer n, as the integer it denotes
F64FromInt(n) ==
    LET x == F64Round(n, 1)
    IN  IF x.q > 0 THEN x.m * 2^x.q ELSE n

\* x > k for an f64 x and an integer k
F64Greater(x, k) ==
    IF x.q >= 0 THEN x.m * 2^x.q > k ELSE x.m > k * 2^(0 - x.q)

\* mutant: the two upper tiers of every chain are swapped
EvmRequiredConfirmations_swapped_tiers(chain_type, amount_wei) ==
    LET eth_amount == F64Round(amount_wei, WeiPerEth)
    IN  CASE chain_type = "ethereum" ->
                IF F64Greater(eth_amount, 10) THEN 6
                ELSE IF F64Greater(eth_amount, 1) THEN 12 ELSE 3
          [] chain_type \in {"polygon", "bsc"} ->
                IF F64Greater(eth_amount, 10) THEN 25
                ELSE IF F64Greater(eth_amount, 1) THEN 50 ELSE 10
          [] chain_type = "arbitrum" ->
                IF F64Greater(eth_amount, 10) THEN 5 ELSE 20
          [] OTHER -> 3

\* EthereumService::get_required_confirmations:
\* eth_amount = wei_to_eth(amount_wei).parse::<f64>()
EvmRequiredConfirmations(chain_type, amount_wei) ==
    LET eth_amount == F64Round(amount_wei, WeiPerEth)
    IN  CASE chain_type = "ethereum" ->
                IF F64Greater(eth_amount, 10) THEN 12
                ELSE IF F64Greater(eth_amount, 1) THEN 6 ELSE 3
          [] chain_type \in {"polygon", "bsc"} ->
                IF F64Greater(eth_amount, 10) THEN 50
                ELSE IF F64Greater(eth_amount, 1) THEN 25 ELSE 10
          [] chain_type = "arbitrum" ->
                IF F64Greater(eth_amount, 10) THEN 20 ELSE 5
          [] OTHER -> 3

\* mutant: the tiers are compared with the amount in lamports
SolanaRequiredConfirmations_in_lamports(amount_lamports) ==
    LET sol == F64Round(F64FromInt(amount_lamports), 1)
    IN  IF F64Greater(sol, 100) THEN 32
        ELSE IF F64Greater(sol, 10) THEN 16 ELSE 1

\* SolanaService::get_required_confirmations:
\* sol = amount_lamports as f64 / 1_000_000_000.0
SolanaRequiredConfirmations(amount_lamports) ==
    LET sol == F64Round(F64FromInt(amount_lamports), LamportsPerSol)
    IN  IF F64Greater(sol, 100) THEN 32
        ELSE IF F64Greater(sol, 10) THEN 16 ELSE 1

(***************************************************************************)
(* What the chain RPC collaborator answers for one transaction reference:  *)
(* the transaction (sender, recipient, value), its receipt (status, block  *)
(* number) and the current block height.                                   *)
(***************************************************************************)
\* amounts used by the requests: half an ether, two ether, half a SOL
HalfCoin == 500
TwoCoins == 2000
HalfSol == 2
CurrentBlock == 10
BlockNumbers == {5, 7, 8}
PayerAddress == "0xpayer"
DepositAddresses == {"0xdep1"}
OtherAddress == "0xother"
TxRefs == {"0xT1"}
MalformedTxRefs == {"0xZZ"}

View(rpc_ok, tx_found, tx_to, tx_value, receipt, block_number) ==
    [rpc_ok |-> rpc_ok, tx_found |-> tx_found,
     tx_from |-> IF tx_found THEN PayerAddress ELSE NULL,
     tx_to |-> tx_to, tx_value |-> tx_value, receipt |-> receipt,
     block_number |-> block_number]

\* the answers the handlers are driven with: the RPC failing, the transaction
\* unknown, a good transfer at each depth, and one answer per way a transfer
\* can fall short (recipient, value, receipt status, not mined yet)
ChainViews ==
    {View(FALSE, FALSE, NULL, 0, "none", NoBlock),
     View(TRUE, FALSE, NULL, 0, "none", NoBlock)}
    \cup
    {View(TRUE, TRUE, a, TwoCoins, "success", b) :
        a \in DepositAddresses, b \in BlockNumbers}
    \cup
    {View(TRUE, TRUE, OtherAddress, TwoCoins, "success", 5),
     View(TRUE, TRUE, "0xdep1", HalfCoin - 1, "success", 5),
     View(TRUE, TRUE, "0xdep1", TwoCoins, "reverted", 5),
     View(TRUE, TRUE, "0xdep1", TwoCoins, "none", NoBlock)}

\* u64::saturating_sub
saturating_sub(a, b) == IF a >= b THEN a - b ELSE 0

NoVerification ==
    [obtained |-> FALSE, is_valid |-> FALSE, confirmations |-> 0, from_address |-> NULL]

\* mutant: the receipt is left out of is_valid
EthereumService_verify_payment_without_receipt(tx_hash, expected_to, expected_amount_wei, view) ==
    IF tx_hash \notin TxRefs \/ ~view.rpc_ok \/ ~view.tx_found
    THEN [err |-> "ethereum", v |-> NoVerification]
    ELSE [err |-> "none",
          v   |-> [obtained      |-> TRUE,
                   is_valid      |-> /\ view.tx_to = expected_to
                                     /\ view.tx_value >= expected_amount_wei,
                   confirmations |-> IF view.receipt # "none" /\ view.block_number # NoBlock
                                     THEN saturating_sub(CurrentBlock, view.block_number)
                                     ELSE 0,
                   from_address  |-> view.tx_from]]

\* EthereumService::verify_payment
EthereumService_verify_payment(tx_hash, expected_to, expected_amount_wei, view) ==
    IF tx_hash \notin TxRefs THEN [err |-> "ethereum", v |-> NoVerification]
    ELSE IF ~view.rpc_ok THEN [err |-> "ethereum", v |-> NoVerification]
    ELSE IF ~view.tx_found THEN [err |-> "ethereum", v |-> NoVerification]
    ELSE
        LET to_matches == view.tx_to = expected_to
            amount_matches == view.tx_value >= expected_amount_wei
            is_successful == view.receipt = "success"
            confirmations ==
                IF view.receipt # "none" /\ view.block_number # NoBlock
                THEN saturating_sub(CurrentBlock, view.block_number)
                ELSE 0
        IN  [err |-> "none",
             v   |-> [obtained      |-> TRUE,
                      is_valid      |-> to_matches /\ amount_matches /\ is_successful,
                      confirmations |-> confirmations,
                      from_address  |-> view.tx_from]]

\* SolanaService::verify_payment: is_valid = meta.err is absent; the
\* confirmations are the node's count for the signature (0 when unknown)
SolanaService_verify_payment(signature, expected_to, expected_amount_lamports, view) ==
    IF signature \notin TxRefs THEN [err |-> "solana", v |-> NoVerification]
    ELSE IF ~view.rpc_ok \/ ~view.tx_found THEN [err |-> "solana", v |-> NoVerification]
    ELSE
        LET is_successful == view.receipt = "success"
            confirmations ==
                IF view.block_number # NoBlock
                THEN saturating_sub(CurrentBlock, view.block_number)
                ELSE 0
        IN  [err |-> "none",
             v   |-> [obtained      |-> TRUE,
                      is_valid      |-> is_successful,
                      confirmations |-> confirmations,
                      from_address  |-> NULL]]

(***************************************************************************)
(* PaymentProcessor                                                        *)
(***************************************************************************)
\* the id the processor assigns to the order created for payment row pid
OrderIds == <<"order_1", "order_2", "order_3", "order_4">>
UnknownOrderId == "order_x"
RazorpayPaymentIds == {"pay_A"}

\* PaymentProcessor::get_evm_service: Some only for a configured EVM chain
get_evm_service(chain) ==
    IF chain \in ConfiguredEvmChains THEN chain ELSE NULL

\* mutant: a placeholder address is handed out instead of the error
generate_deposit_address_placeholder(chain) ==
    [ok |-> TRUE, address |-> "0xdep1"]

\* PaymentProcessor::generate_deposit_address: every arm returns Err
generate_deposit_address(chain) ==
    [ok |-> FALSE, address |-> NULL]

\* mutant: a placeholder invoice is handed out instead of the error
LightningService_create_invoice_placeholder(amount_sat) ==
    [ok |-> TRUE, err |-> "none", payment_request |-> "lnbc_placeholder",
     payment_hash |-> "hash_placeholder"]

\* LightningService::create_invoice: always Err (node not configured)
LightningService_create_invoice(amount_sat) ==
    [ok |-> FALSE, err |-> "not_configured", payment_request |-> NULL,
     payment_hash |-> NULL]

\* LightningService::check_payment: always Err (node not configured)
LightningService_check_payment(payment_hash) ==
    [ok |-> FALSE, err |-> "not_configured", status |-> NULL]

CreationError(db, addrs, txns, kind, pid) ==
    [payments |-> db, addresses |-> addrs, transactions |-> txns,
     result |-> [ok |-> FALSE, err |-> kind, payment_id |-> pid, status |-> NULL,
                 razorpay_order_id |-> NULL, razorpay_key_id |-> NULL,
                 crypto_address |-> NULL, lightning_invoice |-> NULL, chain |-> NULL]]

\* PaymentProcessor::create_razorpay_payment; order is the processor's answer
create_razorpay_payment(db, addrs, txns, pid, request, order, t) ==
    IF request.currency \notin {"INR", "USD", "EUR"}
    THEN CreationError(db, addrs, txns, "payment", pid)
    ELSE IF ~order.ok
    THEN CreationError(db, addrs, txns, "razorpay", pid)
    ELSE [payments |-> PaymentRepository_update_razorpay_details(db, pid, order.id, NULL, NULL, t),
          addresses |-> addrs, transactions |-> txns,
          result |-> [ok |-> TRUE, err |-> "none", payment_id |-> pid, status |-> "pending",
                      razorpay_order_id |-> order.id, razorpay_key_id |-> WebhookSecret,
                      crypto_address |-> NULL, lightning_invoice |-> NULL, chain |-> NULL]]

\* PaymentProcessor::create_evm_payment
create_evm_payment(db, addrs, txns, pid, request, t) ==
    LET chain_type == request.method
        deposit == generate_deposit_address(chain_type)
        addrs1 == Append(addrs, AddressRepository_create(deposit.address, chain_type,
                                                         pid, request.amount))
        db1 == PaymentRepository_update_crypto_details(db, pid, NULL, NULL,
                                                       deposit.address, chain_type, t)
        required_confirmations == EvmRequiredConfirmations(get_evm_service(chain_type),
                                                           request.amount)
        txns1 == Append(txns, TransactionRepository_create(pid, request.amount,
                            request.currency, chain_type, required_confirmations, t))
    IN  IF ~deposit.ok THEN CreationError(db, addrs, txns, "payment", pid)
        ELSE IF get_evm_service(chain_type) = NULL
        THEN CreationError(db1, addrs1, txns, "payment", pid)
        ELSE [payments |-> db1, addresses |-> addrs1, transactions |-> txns1,
              result |-> [ok |-> TRUE, err |-> "none", payment_id |-> pid,
                          status |-> "pending", razorpay_order_id |-> NULL,
                          razorpay_key_id |-> NULL, crypto_address |-> deposit.address,
                          lightning_invoice |-> NULL, chain |-> chain_type]]

\* PaymentProcessor::create_solana_payment
create_solana_payment(db, addrs, txns, pid, request, t) ==
    LET deposit == generate_deposit_address("solana")
        addrs1 == Append(addrs, AddressRepository_create(deposit.address, "solana",
                                                         pid, request.amount))
        db1 == PaymentRepository_update_crypto_details(db, pid, NULL, NULL,
                                                       deposit.address, "solana", t)
        txns1 == Append(txns, TransactionRepository_create(pid, request.amount,
                            request.currency, "solana",
                            SolanaRequiredConfirmations(request.amount), t))
    IN  IF ~deposit.ok THEN CreationError(db, addrs, txns, "payment", pid)
        ELSE [payments |-> db1, addresses |-> addrs1, transactions |-> txns1,
              result |-> [ok |-> TRUE, err |-> "none", payment_id |-> pid,
                          status |-> "pending", razorpay_order_id |-> NULL,
                          razorpay_key_id |-> NULL, crypto_address |-> deposit.address,
                          lightning_invoice |-> NULL, chain |-> "solana"]]

\* PaymentProcessor::create_lightning_payment
create_lightning_payment(db, addrs, txns, pid, request, t) ==
    LET invoice == LightningService_create_invoice(request.amount)
    IN  IF ~invoice.ok THEN CreationError(db, addrs, txns, "lightning", pid)
        ELSE [payments |-> PaymentRepository_update_lightning_details(db, pid,
                               invoice.payment_request, invoice.payment_hash, t),
              addresses |-> addrs, transactions |-> txns,
              result |-> [ok |-> TRUE, err |-> "none", payment_id |-> pid,
                          status |-> "pending", razorpay_order_id |-> NULL,
                          razorpay_key_id |-> NULL, crypto_address |-> NULL,
                          lightning_invoice |-> invoice.payment_request,
                          chain |-> "lightning"]]

\* PaymentProcessor::create_payment: insert the row, then dispatch by method
create_payment(db, addrs, txns, request, order, t) ==
    LET db1 == Append(db, PaymentRepository_create(request, t))
        pid == Len(db1)
    IN  CASE request.method \in RazorpayMethods ->
                create_razorpay_payment(db1, addrs, txns, pid, request, order, t)
          [] request.method \in EvmMethods ->
                create_evm_payment(db1, addrs, txns, pid, request, t)
          [] request.method = "solana" ->
                create_solana_payment(db1, addrs, txns, pid, request, t)
          [] OTHER ->
                create_lightning_payment(db1, addrs, txns, pid, request, t)

\* impl FromStr for ChainType (the stored names are already lower case)
ParseChainType(s) ==
    CASE s \in {"ethereum", "eth"} -> "ethereum"
      [] s \in {"polygon", "matic"} -> "polygon"
      [] s \in {"bsc", "bnb"} -> "bsc"
      [] s \in {"arbitrum", "arb"} -> "arbitrum"
      [] s \in {"solana", "sol"} -> "solana"
      [] s \in {"bitcoin", "btc"} -> "bitcoin"
      [] OTHER -> NULL

\* mutant: a failed verification marks the Payment Failed
VerifyError_marks_failed(db, payment_id, kind, verification) ==
    [payments |-> IF payment_id \in DOMAIN db
                  THEN [db EXCEPT ![payment_id].status = "failed"] ELSE db,
     ok |-> FALSE, err |-> kind, status |-> NULL, verification |-> verification]

\* verify_crypto_payment returning Err: nothing is written
VerifyError(db, payment_id, kind, verification) ==
    [payments |-> db, ok |-> FALSE, err |-> kind, status |-> NULL,
     verification |-> verification]

\* mutant: strictly more confirmations than required are demanded
StatusForConfirmations_strict(confirmations, required) ==
    IF confirmations > required THEN "completed" ELSE "processing"

\* the status a valid proof earns: Completed once confirmations >= required
StatusForConfirmations(confirmations, required) ==
    IF confirmations >= required THEN "completed" ELSE "processing"

\* PaymentProcessor::verify_crypto_payment; view is what the chain RPC answers
verify_crypto_payment(db, payment_id, tx_hash, view, t) ==
    IF payment_id \notin DOMAIN db THEN VerifyError(db, payment_id, "not_found", NoVerification)
    ELSE
    LET payment == db[payment_id]
        chain == ParseChainType(payment.crypto_chain)
        to_address == payment.crypto_to_address
    IN  IF payment.crypto_chain = NULL THEN VerifyError(db, payment_id, "payment", NoVerification)
        ELSE IF chain = NULL THEN VerifyError(db, payment_id, "payment", NoVerification)
        ELSE IF to_address = NULL THEN VerifyError(db, payment_id, "payment", NoVerification)
        ELSE IF chain \in {"ethereum", "polygon", "bsc", "arbitrum"} THEN
            IF get_evm_service(chain) = NULL
            THEN VerifyError(db, payment_id, "payment", NoVerification)
            ELSE
            LET r == EthereumService_verify_payment(tx_hash, to_address, payment.amount, view)
                db1 == PaymentRepository_update_crypto_details(db, payment_id, tx_hash,
                           r.v.from_address, NULL, NULL, t)
                new_status == StatusForConfirmations(r.v.confirmations,
                                  EvmRequiredConfirmations(get_evm_service(chain), payment.amount))
            IN  IF r.err # "none" THEN VerifyError(db, payment_id, r.err, r.v)
                ELSE IF r.v.is_valid
                THEN [payments |-> PaymentRepository_update_status(db1, payment_id, new_status, t),
                      ok |-> TRUE, err |-> "none", status |-> new_status,
                      verification |-> r.v]
                ELSE VerifyError(db, payment_id, "payment", r.v)
        ELSE IF chain = "solana" THEN
            LET r == SolanaService_verify_payment(tx_hash, to_address, payment.amount, view)
                db1 == PaymentRepository_update_crypto_details(db, payment_id, tx_hash,
                           NULL, NULL, NULL, t)
                new_status == StatusForConfirmations(r.v.confirmations,
                                  SolanaRequiredConfirmations(payment.amount))
            IN  IF r.err # "none" THEN VerifyError(db, payment_id, r.err, r.v)
                ELSE IF r.v.is_valid
                THEN [payments |-> PaymentRepository_update_status(db1, payment_id, new_status, t),
                      ok |-> TRUE, err |-> "none", status |-> new_status,
                      verification |-> r.v]
                ELSE VerifyError(db, payment_id, "payment", r.v)
        ELSE VerifyError(db, payment_id, "payment", NoVerification)

(***************************************************************************)
(* Webhook reconciler (src/src/api/handlers/webhooks.rs)                   *)
(***************************************************************************)
\* hex(HMAC-SHA256(secret, payload)): collision free, so the digest is
\* modelled by the pair it was computed from
HmacSha256Hex(secret, payload) == <<secret, payload>>

\* mutant: any signature is accepted
verify_webhook_signature_any(payload, signature, secret) ==
    TRUE

\* RazorpayWebhookVerifier::verify_webhook_signature (Ok(true) or Err)
verify_webhook_signature(payload, signature, secret) ==
    HmacSha256Hex(secret, payload) = signature

\* mutant: the two events are swapped
StatusForEvent_swapped(event) ==
    IF event = "payment.captured" THEN "processing" ELSE "completed"

\* process_razorpay_webhook: captured -> Completed, authorized -> Processing
StatusForEvent(event) ==
    IF event = "payment.captured" THEN "completed" ELSE "processing"

\* mutant: refund events are routed to the payment.failed arm
EventArm_refund_fails(event) ==
    CASE event \in {"payment.authorized", "payment.captured"} -> "paid"
      [] event \in {"payment.failed", "refund.created", "refund.processed"} -> "failed"
      [] OTHER -> "unhandled"

\* process_razorpay_webhook: the arm of `match webhook.event.as_str()`
EventArm(event) ==
    CASE event \in {"payment.authorized", "payment.captured"} -> "paid"
      [] event = "payment.failed" -> "failed"
      [] event \in {"refund.created", "refund.processed"} -> "refund"
      [] OTHER -> "unhandled"

\* process_razorpay_webhook: Ok(Some(id)) / Ok(None) / Err
process_razorpay_webhook(db, body, t) ==
    LET found == PaymentRepository_find_by_razorpay_order_id(db, body.order_id)
        db1 == PaymentRepository_update_razorpay_details(db, found, body.order_id,
                   body.payment_id, NULL, t)
        new_status == StatusForEvent(body.event)
        none == [payments |-> db, ok |-> TRUE, err |-> "none",
                 payment_id |-> NoPayment, broadcast |-> NoPayment]
    IN  IF ~body.parseable
        THEN [payments |-> db, ok |-> FALSE, err |-> "serialization",
              payment_id |-> NoPayment, broadcast |-> NoPayment]
        ELSE IF EventArm(body.event) = "paid"
        THEN IF body.has_payment /\ body.order_id # NULL /\ found # NoPayment
             THEN [payments |-> PaymentRepository_update_status(db1, found, new_status, t),
                   ok |-> TRUE, err |-> "none", payment_id |-> found,
                   broadcast |-> IF WsBroadcasterPresent THEN found ELSE NoPayment]
             ELSE none
        ELSE IF EventArm(body.event) = "failed"
        THEN IF body.has_payment /\ body.order_id # NULL /\ found # NoPayment
             THEN [payments |-> PaymentRepository_update_status(db, found, "failed", t),
                   ok |-> TRUE, err |-> "none", payment_id |-> found,
                   broadcast |-> IF WsBroadcasterPresent THEN found ELSE NoPayment]
             ELSE none
        ELSE none

\* no notification was published
NoPublish == [attempted |-> FALSE, receivers |-> 0, result |-> "none"]

NoCreation ==
    [ok |-> FALSE, err |-> "none", payment_id |-> NoPayment, status |-> NULL,
     razorpay_order_id |-> NULL, razorpay_key_id |-> NULL,
     crypto_address |-> NULL, lightning_invoice |-> NULL, chain |-> NULL]

Response(op, input, result, payment_id, status, event_id, dispatched, verification, broadcast, creation) ==
    [op |-> op, input |-> input, result |-> result, payment_id |-> payment_id,
     status |-> status, event_id |-> event_id, dispatched |-> dispatched,
     verification |-> verification, broadcast |-> broadcast, creation |-> creation,
     published |-> NoPublish, required |-> 0]

\* the connected WebSocket subscribers (receivers of the broadcast channel)
Receivers == {0, 1}

\* mutant: publishing to nobody is reported as an error
broadcast_payment_update_propagates(receivers) ==
    IF receivers > 0 THEN "ok" ELSE "err"

\* PaymentBroadcaster::broadcast_payment_update: sender.send gives Ok(count)
\* or, with no active receiver, Err; both arms return Ok(())
broadcast_payment_update(receivers) ==
    IF receivers > 0 THEN "ok" ELSE "ok"

\* `if let Some(ref broadcaster) = state.ws_broadcaster { let _ =
\* broadcaster.broadcast_payment_update(&payment).await; }`: the outcome is
\* dropped, the handler's answer is what it was
Published(answer, receivers) ==
    IF answer.broadcast = NoPayment THEN answer
    ELSE [answer EXCEPT !.published =
             [attempted |-> TRUE, receivers |-> receivers,
              result |-> broadcast_payment_update(receivers)]]

\* razorpay_webhook: the whole handler for one delivery
razorpay_webhook(db, events, delivery, receivers, t) ==
    LET body == delivery.body
        event_type == IF body.event # NULL THEN body.event ELSE "unknown"
        events1 == Append(events,
                          WebhookRepository_create("razorpay", event_type, delivery.signature))
        eid == Len(events1)
        signature_valid == verify_webhook_signature(body, delivery.signature, WebhookSecret)
        r == process_razorpay_webhook(db, body, t)
        answer(result, pid, dispatched, ev, bc) ==
            Published(Response("razorpay_webhook", delivery, result, pid, NULL, ev,
                               dispatched, NoVerification, bc, NoCreation), receivers)
    IN  IF ~delivery.has_signature
        THEN [payments |-> db, webhook_events |-> events,
              response |-> answer("bad_request", NoPayment, FALSE, NoEvent, NoPayment)]
        ELSE IF ~body.json_ok
        THEN [payments |-> db, webhook_events |-> events,
              response |-> answer("bad_request", NoPayment, FALSE, NoEvent, NoPayment)]
        ELSE IF ~signature_valid
        THEN [payments |-> db,
              webhook_events |-> WebhookRepository_update_status(events1, eid, "failed",
                                     FALSE, NoPayment, "Invalid signature", t),
              response |-> answer("unauthorized", NoPayment, FALSE, eid, NoPayment)]
        ELSE IF r.ok
        THEN [payments |-> r.payments,
              webhook_events |-> WebhookRepository_update_status(events1, eid, "processed",
                                     TRUE, r.payment_id, NULL, t),
              response |-> answer("ok", r.payment_id, TRUE, eid, r.broadcast)]
        ELSE [payments |-> r.payments,
              webhook_events |-> WebhookRepository_update_status(events1, eid, "failed",
                                     TRUE, NoPayment, r.err, t),
              response |-> answer("internal", NoPayment, TRUE, eid, NoPayment)]

\* blockchain_webhook: the whole handler for one pushed transaction
blockchain_webhook(db, events, payload, view, receivers, t) ==
    LET events1 == Append(events,
                          WebhookRepository_create("blockchain", "transaction.received",
                                                   NoSignature))
        eid == Len(events1)
        found == PaymentRepository_find_pending_by_crypto_address(db, payload.to_address,
                                                                  payload.chain)
        r == verify_crypto_payment(db, found, payload.tx_hash, view, t)
        answer(result, pid, status, dispatched, verification, bc) ==
            Published(Response("blockchain_webhook", payload, result, pid, status, eid,
                               dispatched, verification, bc, NoCreation), receivers)
    IN  IF found = NoPayment
        THEN [payments |-> db, webhook_events |-> events1,
              response |-> answer("ok", NoPayment, NULL, FALSE, NoVerification, NoPayment)]
        ELSE IF ~r.ok
        THEN [payments |-> r.payments, webhook_events |-> events1,
              response |-> answer(r.err, found, NULL, TRUE, r.verification, NoPayment)]
        ELSE [payments |-> r.payments,
              webhook_events |-> WebhookRepository_update_status(events1, eid, "processed",
                                     TRUE, found, NULL, t),
              response |-> answer("ok", found, r.status, TRUE, r.verification,
                                  IF WsBroadcasterPresent THEN found ELSE NoPayment)]

(***************************************************************************)
(* Crypto handlers (src/src/api/handlers/crypto.rs)                        *)
(***************************************************************************)
\* verify_crypto_transaction: the whole handler
verify_crypto_transaction(db, request, view, receivers, t) ==
    LET r == verify_crypto_payment(db, request.payment_id, request.tx_hash, view, t)
        answer(result, status, dispatched, verification, bc) ==
            Published(Response("verify_crypto_transaction", request, result,
                               request.payment_id, status, NoEvent, dispatched,
                               verification, bc, NoCreation), receivers)
    IN  IF request.tx_hash \in MalformedTxRefs
        THEN [payments |-> db,
              response |-> answer("validation", NULL, FALSE, NoVerification, NoPayment)]
        ELSE IF request.payment_id \notin DOMAIN db
        THEN [payments |-> db,
              response |-> answer("not_found", NULL, FALSE, NoVerification, NoPayment)]
        ELSE IF db[request.payment_id].status \in {"completed", "failed", "cancelled"}
        THEN [payments |-> db,
              response |-> answer("payment", NULL, FALSE, NoVerification, NoPayment)]
        ELSE IF ~r.ok
        THEN [payments |-> r.payments,
              response |-> answer(r.err, NULL, TRUE, r.verification, NoPayment)]
        ELSE [payments |-> r.payments,
              response |-> answer("ok", r.status, TRUE, r.verification,
                                  IF WsBroadcasterPresent THEN request.payment_id
                                  ELSE NoPayment)]

(***************************************************************************)
(* Requests the clients, the processor and the chain monitor can send.     *)
(***************************************************************************)
CreatePaymentRequests ==
    {[amount |-> HalfCoin, currency |-> "INR", method |-> "card"],
     [amount |-> HalfCoin, currency |-> "ETH", method |-> "card"],
     [amount |-> HalfCoin, currency |-> "ETH", method |-> "ethereum"],
     [amount |-> TwoCoins, currency |-> "MATIC", method |-> "polygon"],
     [amount |-> HalfCoin, currency |-> "BNB", method |-> "bsc"],
     [amount |-> HalfCoin, currency |-> "ETH", method |-> "arbitrum"],
     [amount |-> HalfSol, currency |-> "SOL", method |-> "solana"],
     [amount |-> HalfCoin, currency |-> "BTC", method |-> "lightning"]}

KnownOrderIds == {OrderIds[i] : i \in 1..MaxPayments}

Body(event, parseable, has_payment, order_id) ==
    [json_ok |-> TRUE, event |-> event, parseable |-> parseable,
     has_payment |-> has_payment, order_id |-> order_id, payment_id |-> "pay_A"]

PaymentBodies ==
    {Body(e, TRUE, TRUE, o) :
        e \in {"payment.authorized", "payment.captured", "payment.failed"},
        o \in KnownOrderIds \cup {UnknownOrderId}}

OtherBodies ==
    {Body("refund.created", TRUE, TRUE, OrderIds[1]),
     Body("order.paid", TRUE, TRUE, OrderIds[1]),
     Body("payment.captured", TRUE, FALSE, NULL),
     Body("payment.captured", FALSE, TRUE, OrderIds[1]),
     Body(NULL, FALSE, FALSE, NULL)}

BadJsonBody ==
    [json_ok |-> FALSE, event |-> NULL, parseable |-> FALSE,
     has_payment |-> FALSE, order_id |-> NULL, payment_id |-> NULL]

Deliveries ==
    {[has_signature |-> TRUE, signature |-> HmacSha256Hex(WebhookSecret, b), body |-> b] :
        b \in PaymentBodies \cup OtherBodies \cup {BadJsonBody}}
    \cup
    {[has_signature |-> TRUE, signature |-> HmacSha256Hex("other_secret", b), body |-> b] :
        b \in {Body("payment.captured", TRUE, TRUE, o) : o \in KnownOrderIds}}
    \cup
    {[has_signature |-> TRUE,
      signature |-> HmacSha256Hex(WebhookSecret, Body("payment.failed", TRUE, TRUE, OrderIds[1])),
      body |-> Body("payment.captured", TRUE, TRUE, OrderIds[1])],
     [has_signature |-> TRUE, signature |-> HmacSha256Hex("other_secret", BadJsonBody),
      body |-> BadJsonBody],
     [has_signature |-> FALSE, signature |-> NoSignature,
      body |-> Body("payment.captured", TRUE, TRUE, OrderIds[1])]}

VerifyRequests ==
    [payment_id : 1..MaxPayments, tx_hash : TxRefs]
    \cup [payment_id : {1}, tx_hash : MalformedTxRefs]

BlockchainPayloads ==
    [chain : {"ethereum", "solana"}, tx_hash : TxRefs,
     to_address : DepositAddresses \cup {OtherAddress}]

(***************************************************************************)
(* Actions: one per handler.                                               *)
(***************************************************************************)
CreatePayment ==
    /\ now < MaxOps
    /\ Len(payments) < MaxPayments
    /\ \E request \in CreatePaymentRequests, order_ok \in BOOLEAN :
        LET order == [ok |-> order_ok, id |-> OrderIds[Len(payments) + 1]]
            r == create_payment(payments, addresses, transactions, request, order, now + 1)
        IN  /\ payments' = r.payments
            /\ addresses' = r.addresses
            /\ transactions' = r.transactions
            /\ response' = Response("create_payment", request,
                                    IF r.result.ok THEN "ok" ELSE r.result.err,
                                    r.result.payment_id, r.result.status, NoEvent, FALSE,
                                    NoVerification, NoPayment, r.result)
    /\ now' = now + 1
    /\ UNCHANGED executions
    /\ UNCHANGED webhook_events

VerifyCryptoTransaction ==
    /\ now < MaxOps
    /\ \E request \in VerifyRequests, view \in ChainViews, receivers \in Receivers :
        LET r == verify_crypto_transaction(payments, request, view, receivers, now + 1)
        IN  /\ payments' = r.payments
            /\ response' = r.response
    /\ now' = now + 1
    /\ UNCHANGED executions
    /\ UNCHANGED <<addresses, transactions, webhook_events>>

RazorpayWebhook ==
    /\ now < MaxOps
    /\ Len(webhook_events) < MaxEvents
    /\ \E delivery \in Deliveries, receivers \in Receivers :
        LET r == razorpay_webhook(payments, webhook_events, delivery, receivers, now + 1)
        IN  /\ payments' = r.payments
            /\ webhook_events' = r.webhook_events
            /\ response' = r.response
    /\ now' = now + 1
    /\ UNCHANGED executions
    /\ UNCHANGED <<addresses, transactions>>

BlockchainWebhook ==
    /\ now < MaxOps
    /\ Len(webhook_events) < MaxEvents
    /\ \E payload \in BlockchainPayloads, view \in ChainViews, receivers \in Receivers :
        LET r == blockchain_webhook(payments, webhook_events, payload, view, receivers,
                                    now + 1)
        IN  /\ payments' = r.payments
            /\ webhook_events' = r.webhook_events
            /\ response' = r.response
    /\ now' = now + 1
    /\ UNCHANGED executions
    /\ UNCHANGED <<addresses, transactions>>

Next ==
    \/ CreatePayment
    \/ VerifyCryptoTransaction
    \/ RazorpayWebhook
    \/ BlockchainWebhook

\* the two requests that can verify one Payment at the same time: a
\* client's verify_crypto_transaction and a pushed blockchain_webhook
Executions == {"client", "webhook"}

\* a request that has not arrived
IdleExecution ==
    [pc |-> "idle", payment_id |-> NoPayment, tx_hash |-> NULL, event_id |-> NoEvent,
     verification |-> NoVerification, new_status |-> NULL]

NoExecutions == [e \in Executions |-> IdleExecution]

NoResponse ==
    Response("none", NULL, "none", NoPayment, NULL, NoEvent, FALSE, NoVerification,
             NoPayment, NoCreation)

\* an empty database
Init ==
    /\ payments = <<>>
    /\ transactions = <<>>
    /\ addresses = <<>>
    /\ webhook_events = <<>>
    /\ now = 0
    /\ response = NoResponse
    /\ executions = NoExecutions

Spec == Init /\ [][Next]_vars

\* a crypto Payment row as create_evm_payment / create_solana_payment leave it
\* once a deposit address is at hand: Pending, deposit address and chain set
ProvisionedPayment(method, currency, amount, address) ==
    [PaymentRepository_create([amount |-> amount, currency |-> currency,
                               method |-> method], 1)
        EXCEPT !.crypto_to_address = address, !.crypto_chain = method]

ProvisionedPayments ==
    {ProvisionedPayment("ethereum", "ETH", HalfCoin, "0xdep1"),
     ProvisionedPayment("ethereum", "ETH", TwoCoins, "0xdep1"),
     ProvisionedPayment("solana", "SOL", HalfSol, "0xdep1")}

\* required_confirmations(chain, amount) of the confirmation policy
RequiredConfirmations(chain, amount) ==
    IF chain = "solana" THEN SolanaRequiredConfirmations(amount)
    ELSE EvmRequiredConfirmations(chain, amount)

\* the CryptoAddress create_evm_payment / create_solana_payment binds to p
ProvisionedAddress(p) ==
    AddressRepository_create(p.crypto_to_address, p.crypto_chain, 1, p.amount)

\* the Transaction create_evm_payment / create_solana_payment writes for p
ProvisionedTransaction(p) ==
    TransactionRepository_create(1, p.amount, p.currency, p.crypto_chain,
                                 RequiredConfirmations(p.crypto_chain, p.amount), 1)

\* a database that already holds one crypto Payment with its deposit address
\* and its Transaction, written at clock value 1
InitProvisioned ==
    /\ payments \in {<<p>> : p \in ProvisionedPayments}
    /\ transactions = <<ProvisionedTransaction(payments[1])>>
    /\ addresses = <<ProvisionedAddress(payments[1])>>
    /\ webhook_events = <<>>
    /\ now = 1
    /\ response = NoResponse
    /\ executions = NoExecutions

SpecProvisioned == InitProvisioned /\ [][Next]_vars

(***************************************************************************)
(* Properties.                                                             *)
(***************************************************************************)
\* a handler ran in this step
Stepped == now' # now

\* the response of a call that reached verify_crypto_payment
IsVerification(r) ==
    /\ r.op \in {"verify_crypto_transaction", "blockchain_webhook"}
    /\ r.dispatched

\* ... and in which the chain adapter returned a proof with is_valid = true
ValidProof(r) ==
    IsVerification(r) /\ r.verification.obtained /\ r.verification.is_valid

\* ... in which the proof was found on chain but is_valid = false
InvalidProof(r) ==
    IsVerification(r) /\ r.verification.obtained /\ ~r.verification.is_valid

\* ... in which the chain adapter returned an error
AdapterError(r) ==
    IsVerification(r) /\ ~r.verification.obtained /\ r.result \in {"ethereum", "solana"}

\* C1: every Payment row created by create_payment, whatever the method and
\* whether or not the call then fails, is Pending when the call returns, and a
\* successful result reports Pending.
C1_CreatedPending ==
    response.op = "create_payment" =>
        /\ response.payment_id = Len(payments)
        /\ payments[response.payment_id].status = "pending"
        /\ (response.result = "ok" => response.status = "pending")

C1_Witness ==
    /\ response.op = "create_payment"
    /\ response.result = "ok"
    /\ payments[response.payment_id].razorpay_order_id # NULL
    /\ payments[response.payment_id].status = "pending"

\* C2: after a verification that obtained a proof with is_valid = true, the
\* Payment is Completed if the observed confirmations are at least
\* required_confirmations(chain, amount) and Processing otherwise.
C2_StatusByConfirmations ==
    ValidProof(response) =>
        LET p == payments[response.payment_id]
            required == RequiredConfirmations(p.crypto_chain, p.amount)
        IN  /\ response.result = "ok"
            /\ (response.verification.confirmations >= required
                    => p.status = "completed")
            /\ (response.verification.confirmations < required
                    => p.status = "processing")

C2_Witness ==
    /\ ValidProof(response)
    /\ response.verification.confirmations =
           RequiredConfirmations(payments[response.payment_id].crypto_chain,
                                 payments[response.payment_id].amount)
    /\ payments[response.payment_id].status = "completed"

\* a transfer to the Payment's deposit address that satisfies both adapters
GoodView(p, b) ==
    View(TRUE, TRUE, p.crypto_to_address, TwoCoins, "success", b)

\* C3: when proof verification fails (proof found but invalid, or the chain
\* adapter errs) the call returns an error and no Payment field changes, so a
\* later verify_crypto_payment with a valid proof moves the Payment to
\* Processing or Completed.
C3_FailedVerificationLeavesPayment ==
    [][(Stepped /\ (InvalidProof(response') \/ AdapterError(response'))) =>
          /\ response'.result # "ok"
          /\ payments' = payments
          /\ \A b \in BlockNumbers :
                LET r == verify_crypto_payment(payments', response'.payment_id, "0xT1",
                             GoodView(payments'[response'.payment_id], b), now' + 1)
                IN  r.ok /\ r.status \in {"processing", "completed"}]_vars

C3_Witness ==
    /\ AdapterError(response)
    /\ payments[response.payment_id].status = "processing"

\* C4 as stated: a proof found on chain with is_valid = false makes the
\* Payment Failed.
C4_InvalidProofFails ==
    InvalidProof(response) => payments[response.payment_id].status = "failed"

\* C4 amended: a proof found on chain with is_valid = false makes the call
\* return a Payment error and leaves the Payment's status as it was, which is
\* not Failed.
C4_InvalidProofKeepsStatus ==
    [][(Stepped /\ InvalidProof(response')) =>
          /\ response'.result = "payment"
          /\ payments'[response'.payment_id].status = payments[response'.payment_id].status
          /\ payments'[response'.payment_id].status # "failed"]_vars

C4_Witness ==
    /\ InvalidProof(response)
    /\ response.result = "payment"
    /\ payments[response.payment_id].status = "pending"

\* C5 as stated: scenario A.  create_payment(amount = half a coin, method = Ethereum)
\* succeeds with status Pending and a Transaction whose required_confirmations
\* is 3; a valid proof with 2 confirmations leaves that Payment Processing and
\* one with 5 confirmations makes it Completed.
C5_ScenarioA ==
    /\ (/\ response.op = "create_payment"
        /\ response.input = [amount |-> HalfCoin, currency |-> "ETH", method |-> "ethereum"])
       => /\ response.result = "ok"
          /\ response.status = "pending"
          /\ \E i \in DOMAIN transactions :
                /\ transactions[i].payment_id = response.payment_id
                /\ transactions[i].required_confirmations = 3
    /\ (/\ ValidProof(response)
        /\ payments[response.payment_id].method = "ethereum"
        /\ payments[response.payment_id].amount = HalfCoin)
       => /\ (response.verification.confirmations = 2
                => payments[response.payment_id].status = "processing")
          /\ (response.verification.confirmations = 5
                => payments[response.payment_id].status = "completed")

\* the request of scenario A
ScenarioARequest == [amount |-> HalfCoin, currency |-> "ETH", method |-> "ethereum"]

\* C5 amended: create_payment(amount = half a coin, method = Ethereum) returns
\* a Payment error, leaving a Pending Payment without chain, deposit address
\* or Transaction; for an Ethereum Payment of that amount that carries a chain
\* and a deposit address the required confirmations are 3, a valid proof with
\* 2 confirmations puts it in Processing and a valid proof with 5
\* confirmations makes it Completed, also when it was Processing before.
C5_ScenarioAOnProvisionedPayment ==
    [][Stepped =>
        /\ (response'.op = "create_payment" /\ response'.input = ScenarioARequest)
           => /\ response'.result = "payment"
              /\ payments'[response'.payment_id].status = "pending"
              /\ payments'[response'.payment_id].crypto_to_address = NULL
              /\ transactions' = transactions
        /\ (/\ ValidProof(response')
            /\ payments[response'.payment_id].method = "ethereum"
            /\ payments[response'.payment_id].amount = HalfCoin)
           => /\ RequiredConfirmations(payments[response'.payment_id].crypto_chain,
                                       HalfCoin) = 3
              /\ payments[response'.payment_id].status \in {"pending", "processing"}
              /\ (response'.verification.confirmations = 2
                    => payments'[response'.payment_id].status = "processing")
              /\ (response'.verification.confirmations = 5
                    => payments'[response'.payment_id].status = "completed")]_vars

\* a proof with 5 confirmations completes the Payment that a pushed proof
\* with too few confirmations had put in Processing
C5_Witness ==
    /\ response.op = "verify_crypto_transaction"
    /\ ValidProof(response)
    /\ response.verification.confirmations = 5
    /\ payments[response.payment_id].method = "ethereum"
    /\ payments[response.payment_id].amount = HalfCoin
    /\ payments[response.payment_id].status = "completed"
    /\ \E i \in DOMAIN webhook_events :
          /\ webhook_events[i].source = "blockchain"
          /\ webhook_events[i].status = "processed"
          /\ webhook_events[i].payment_id = response.payment_id

\* the delivery carries a signature that is not the HMAC of its body
SignatureMismatch(delivery) ==
    /\ delivery.has_signature
    /\ delivery.signature # HmacSha256Hex(WebhookSecret, delivery.body)

\* the delivery carries the HMAC of its body under the webhook secret
SignatureMatch(delivery) ==
    /\ delivery.has_signature
    /\ delivery.signature = HmacSha256Hex(WebhookSecret, delivery.body)

LinkedPayment(db, body) ==
    IF body.json_ok /\ body.parseable /\ body.has_payment /\ body.order_id # NULL
       /\ body.event \in {"payment.authorized", "payment.captured", "payment.failed"}
    THEN PaymentRepository_find_by_razorpay_order_id(db, body.order_id)
    ELSE NoPayment

\* C7: a validly signed processor webhook whose order id matches a Payment
\* sets that Payment's status by event type (authorized -> Processing,
\* captured -> Completed, failed -> Failed), attaches the processor's payment
\* id for authorized and captured, and leaves the delivery's WebhookEvent
\* with signature_verified = true.
C7_DispatchByEventType ==
    [][(/\ Stepped
        /\ response'.op = "razorpay_webhook"
        /\ SignatureMatch(response'.input)
        /\ LinkedPayment(payments, response'.input.body) # NoPayment) =>
          LET body == response'.input.body
              pid == LinkedPayment(payments, body)
          IN  /\ response'.result = "ok"
              /\ response'.payment_id = pid
              /\ (body.event = "payment.authorized" => payments'[pid].status = "processing")
              /\ (body.event = "payment.captured" => payments'[pid].status = "completed")
              /\ (body.event = "payment.failed" => payments'[pid].status = "failed")
              /\ (body.event \in {"payment.authorized", "payment.captured"}
                    => payments'[pid].razorpay_payment_id = body.payment_id)
              /\ \A j \in DOMAIN payments : j # pid => payments'[j] = payments[j]
              /\ webhook_events'[response'.event_id].signature_verified = TRUE
              /\ webhook_events'[response'.event_id].payment_id = pid]_vars

\* a validly signed payment.captured completed the Payment of its order
C7_Witness ==
    /\ response.op = "razorpay_webhook"
    /\ SignatureMatch(response.input)
    /\ response.input.body.event = "payment.captured"
    /\ response.payment_id # NoPayment
    /\ payments[response.payment_id].status = "completed"
    /\ payments[response.payment_id].razorpay_payment_id = "pay_A"
    /\ webhook_events[response.event_id].signature_verified = TRUE

\* C8: replaying a validly signed payment.captured delivery for a Payment that
\* is already Completed is answered without error and changes no stored field
\* of that Payment (completed_at and the processor fields included).
C8_ReplayIsNoOp ==
    [][(/\ Stepped
        /\ response'.op = "razorpay_webhook"
        /\ response.op = "razorpay_webhook"
        /\ response'.input = response.input
        /\ SignatureMatch(response'.input)
        /\ response'.input.body.event = "payment.captured"
        /\ LinkedPayment(payments, response'.input.body) # NoPayment
        /\ payments[LinkedPayment(payments, response'.input.body)].status = "completed") =>
          /\ response'.result = "ok"
          /\ payments' = payments]_vars

\* C9: every delivery to the processor webhook endpoint, whatever its headers
\* and body, adds a WebhookEvent record.
C9_AuditFirst ==
    [][(Stepped /\ response'.op = "razorpay_webhook") =>
          /\ Len(webhook_events') = Len(webhook_events) + 1
          /\ response'.event_id = Len(webhook_events')]_vars

\* C10: after a dispatch of a persisted webhook delivery (processor or
\* blockchain source) its WebhookEvent is Processed if the dispatch succeeded
\* and Failed if it failed, never Received.
C10_DispatchEndsTerminal ==
    (/\ response.op \in {"razorpay_webhook", "blockchain_webhook"}
     /\ response.dispatched) =>
        /\ response.event_id # NoEvent
        /\ webhook_events[response.event_id].status =
              IF response.result = "ok" THEN "processed" ELSE "failed"

C12_PublishNeverFails ==
    [][(Stepped /\ response'.published.attempted) =>
          /\ response'.published.result = "ok"
          /\ response'.result = "ok"
          /\ response'.broadcast = response'.payment_id
          /\ payments'[response'.payment_id].updated_at = now'
          /\ payments'[response'.payment_id].status \in {"processing", "completed", "failed"}
          /\ response'.event_id # NoEvent
                => webhook_events'[response'.event_id].status = "processed"]_vars

\* a captured webhook completed a Payment while nobody was subscribed
C12_Witness ==
    /\ response.op = "razorpay_webhook"
    /\ response.published.attempted
    /\ response.published.receivers = 0
    /\ response.result = "ok"
    /\ payments[response.payment_id].status = "completed"

\* the methods whose creation needs a deposit address
CryptoMethods == EvmMethods \cup {"solana"}

\* C13: create_payment with method Ethereum, Polygon, Bsc, Arbitrum or Solana
\* returns an error, never a success result, and writes no CryptoAddress and
\* no Transaction record.
C13_CryptoCreationAlwaysErrs ==
    [][(/\ Stepped
        /\ response'.op = "create_payment"
        /\ response'.input.method \in CryptoMethods) =>
          /\ response'.result = "payment"
          /\ ~response'.creation.ok
          /\ response'.creation.crypto_address = NULL
          /\ addresses' = addresses
          /\ transactions' = transactions
          /\ \A i \in DOMAIN addresses' : addresses'[i].payment_id # response'.payment_id
          /\ \A i \in DOMAIN transactions' :
                transactions'[i].payment_id # response'.payment_id]_vars

\* a Solana creation and a Polygon creation have both been refused
C13_Witness ==
    /\ response.op = "create_payment"
    /\ response.input.method = "solana"
    /\ response.result = "payment"
    /\ \E i \in DOMAIN payments : payments[i].method = "polygon"
    /\ addresses = <<>>
    /\ transactions = <<>>

\* payment hashes a client can poll
PaymentHashes == {"hash_placeholder", "hash_unknown"}

\* C14: Lightning invoice creation and payment-status polling always fail
\* with a not-configured error; create_payment with method Lightning returns
\* an error, and no Payment carries an invoice or a payment hash.
C14_LightningNotConfigured ==
    /\ \A r \in CreatePaymentRequests :
          /\ ~LightningService_create_invoice(r.amount).ok
          /\ LightningService_create_invoice(r.amount).err = "not_configured"
    /\ \A h \in PaymentHashes :
          /\ ~LightningService_check_payment(h).ok
          /\ LightningService_check_payment(h).err = "not_configured"
    /\ (response.op = "create_payment" /\ response.input.method = "lightning")
          => /\ response.result = "lightning"
             /\ response.creation.lightning_invoice = NULL
    /\ \A i \in DOMAIN payments :
          /\ payments[i].lightning_invoice = NULL
          /\ payments[i].lightning_payment_hash = NULL

\* a Lightning creation was refused and left its Pending row without invoice
C14_Witness ==
    /\ response.op = "create_payment"
    /\ response.input.method = "lightning"
    /\ response.result = "lightning"
    /\ payments[response.payment_id].status = "pending"
    /\ payments[response.payment_id].lightning_invoice = NULL

\* the three groups of method-specific fields of a Payment row
ProcessorFieldsPopulated(p) ==
    \/ p.razorpay_order_id # NULL
    \/ p.razorpay_payment_id # NULL
    \/ p.razorpay_signature # NULL

ChainFieldsPopulated(p) ==
    \/ p.crypto_tx_hash # NULL
    \/ p.crypto_from_address # NULL
    \/ p.crypto_to_address # NULL
    \/ p.crypto_chain # NULL

InvoiceFieldsPopulated(p) ==
    \/ p.lightning_invoice # NULL
    \/ p.lightning_payment_hash # NULL

\* C15: every persisted Payment has exactly one of the three field groups
\* populated, the one its method determines, also after a create_payment
\* call that returned an error.
C15_ExactlyOneFieldGroup ==
    \A i \in DOMAIN payments :
        LET p == payments[i]
        IN  /\ ProcessorFieldsPopulated(p) <=> p.method \in RazorpayMethods
            /\ ChainFieldsPopulated(p) <=> p.method \in CryptoMethods
            /\ InvoiceFieldsPopulated(p) <=> p.method = "lightning"

\* amount and method of row i are the same in both tables
SameAmountAndMethod(db1, db2, i) ==
    /\ db2[i].amount = db1[i].amount
    /\ db2[i].method = db1[i].method

\* C16: no operation changes the amount or the method of an existing Payment:
\* no handler step does, and none of the repository updates (status, the one
\* a refund uses included, processor details, crypto details, lightning
\* details) does on any stored row.
C16_AmountAndMethodImmutable ==
    [][Stepped =>
        /\ Len(payments') >= Len(payments)
        /\ \A i \in DOMAIN payments :
              /\ SameAmountAndMethod(payments, payments', i)
              /\ \A st \in PaymentStatus :
                    SameAmountAndMethod(payments,
                        PaymentRepository_update_status(payments, i, st, now'), i)
              /\ SameAmountAndMethod(payments,
                    PaymentRepository_update_razorpay_details(payments, i, "order_x",
                        "pay_A", "sig", now'), i)
              /\ SameAmountAndMethod(payments,
                    PaymentRepository_update_crypto_details(payments, i, "0xT1",
                        PayerAddress, OtherAddress, "solana", now'), i)
              /\ SameAmountAndMethod(payments,
                    PaymentRepository_update_lightning_details(payments, i,
                        "lnbc_placeholder", "hash_placeholder", now'), i)]_vars

\* a verification has written the status and the crypto details of a row
\* whose amount and method are still the ones it was created with
C16_Witness ==
    /\ ValidProof(response)
    /\ payments[response.payment_id].crypto_tx_hash # NULL
    /\ payments[response.payment_id].crypto_from_address = PayerAddress
    /\ payments[response.payment_id].updated_at = now
    /\ payments[response.payment_id].amount = TwoCoins
    /\ payments[response.payment_id].method = "ethereum"

(***************************************************************************)
(* The confirmation policy on its own: get_required_confirmations is       *)
(* queried for a chain and an amount in the chain's smallest unit.         *)
(***************************************************************************)
\* amounts at, just above and well above the tier limits of each unit
EthAmounts ==
    {k * WeiPerEth + d : k \in {0, 1, 10}, d \in {0, 1, 2, 16}}
    \cup {HalfCoin, TwoCoins, 20 * WeiPerEth}

SolAmounts ==
    {k * LamportsPerSol + d : k \in {0, 1, 10, 100}, d \in {0, 1}}
    \cup {HalfSol, 125 * LamportsPerSol}

\* the amounts a chain is asked about, in its own smallest unit
PolicyAmounts(chain) == IF chain = "solana" THEN SolAmounts ELSE EthAmounts

GetRequiredConfirmations ==
    /\ now < MaxOps
    /\ \E chain \in ChainType :
       \E amount \in PolicyAmounts(chain) :
          response' = [NoResponse EXCEPT
                          !.op = "get_required_confirmations",
                          !.input = [chain |-> chain, amount |-> amount],
                          !.required = RequiredConfirmations(chain, amount)]
    /\ now' = now + 1
    /\ UNCHANGED executions
    /\ UNCHANGED <<payments, transactions, addresses, webhook_events>>

NextPolicy == GetRequiredConfirmations

SpecPolicy == Init /\ [][NextPolicy]_vars

\* the answer is to a query of the confirmation policy
IsPolicyQuery(r) == r.op = "get_required_confirmations"

\* smallest units per native coin of a chain
UnitsPerCoin(chain) == IF chain = "solana" THEN LamportsPerSol ELSE WeiPerEth

\* the table of the confirmation policy, amounts compared in whole coins
PolicyTable(chain, amount) ==
    LET above(k) == amount > k * UnitsPerCoin(chain)
    IN  CASE chain = "ethereum" -> IF above(10) THEN 12 ELSE IF above(1) THEN 6 ELSE 3
          [] chain \in {"polygon", "bsc"} ->
                IF above(10) THEN 50 ELSE IF above(1) THEN 25 ELSE 10
          [] chain = "arbitrum" -> IF above(10) THEN 20 ELSE 5
          [] chain = "solana" -> IF above(100) THEN 32 ELSE IF above(10) THEN 16 ELSE 1
          [] OTHER -> 3

\* C17: required_confirmations is the table: Ethereum 12 if amount > 10 coins,
\* 6 if > 1, else 3; Polygon and BSC 50, 25, 10; Arbitrum 20 if > 10, else 5;
\* Solana 32 if > 100, 16 if > 10, else 1; any other chain 3.
C17_PolicyIsTheTable ==
    IsPolicyQuery(response) =>
        response.required = PolicyTable(response.input.chain, response.input.amount)

\* C18: for a fixed chain required_confirmations is non-decreasing in the
\* amount: a smaller amount never requires more, a larger one never less.
C18_MonotoneInAmount ==
    IsPolicyQuery(response) =>
        \A b \in PolicyAmounts(response.input.chain) :
            LET other == RequiredConfirmations(response.input.chain, b)
            IN  /\ response.input.amount <= b => response.required <= other
                /\ b <= response.input.amount => other <= response.required

\* the top tier of a chain with two limits was answered
C18_Witness ==
    /\ IsPolicyQuery(response)
    /\ response.input.chain = "polygon"
    /\ response.input.amount = 20 * WeiPerEth
    /\ response.required = 50

\* the amount in wei of as many coins as the given lamports
SameCoinsInWei(amount_lamports) == amount_lamports * (WeiPerEth \div LamportsPerSol)

TransactionStatus == {"pending", "confirming", "confirmed", "failed", "cancelled"}

\* Pending or Confirming
NonTerminalTransaction(tx) == tx.status \in {"pending", "confirming"}

InitTransactions ==
    /\ payments \in {<<p>> : p \in ProvisionedPayments}
    /\ transactions = <<ProvisionedTransaction(payments[1])>>
    /\ addresses = <<ProvisionedAddress(payments[1])>>
    /\ webhook_events = <<>>
    /\ now = 1
    /\ response = NoResponse
    /\ executions = NoExecutions

ConfirmationCounts == {0, 1, 2, 3, 5}
ErrorMessages == {NULL, "reverted"}
Fees == {NoFee, 21}

\* the answer of a repository update: the row as RETURNING gives it
RepositoryResponse(op, input, txns, id) ==
    [NoResponse EXCEPT !.op = op, !.input = input, !.result = "ok",
                       !.payment_id = txns[id].payment_id,
                       !.status = txns[id].status]

UpdateTransactionStatus ==
    /\ now < MaxOps
    /\ \E id \in 1..Len(transactions), status \in TransactionStatus, msg \in ErrorMessages :
        LET txns == TransactionRepository_update_status(transactions, id, status, msg,
                                                        now + 1)
        IN  /\ transactions' = txns
            /\ response' = RepositoryResponse("update_status",
                               [id |-> id, status |-> status, error_message |-> msg],
                               txns, id)
    /\ now' = now + 1
    /\ UNCHANGED executions
    /\ UNCHANGED <<payments, addresses, webhook_events>>

UpdateBlockchainDetails ==
    /\ now < MaxOps
    /\ \E id \in 1..Len(transactions), tx_hash \in TxRefs, block \in {NoBlock, 5}, fee \in Fees :
        LET txns == TransactionRepository_update_blockchain_details(transactions, id,
                        tx_hash, block, PayerAddress, payments[1].crypto_to_address,
                        fee, now + 1)
        IN  /\ transactions' = txns
            /\ response' = RepositoryResponse("update_blockchain_details",
                               [id |-> id, tx_hash |-> tx_hash, block_number |-> block,
                                fee |-> fee], txns, id)
    /\ now' = now + 1
    /\ UNCHANGED executions
    /\ UNCHANGED <<payments, addresses, webhook_events>>

UpdateConfirmations ==
    /\ now < MaxOps
    /\ \E id \in 1..Len(transactions), n \in ConfirmationCounts, status \in TransactionStatus :
        LET txns == TransactionRepository_update_confirmations(transactions, id, n,
                                                               status, now + 1)
        IN  /\ transactions' = txns
            /\ response' = RepositoryResponse("update_confirmations",
                               [id |-> id, confirmations |-> n, status |-> status],
                               txns, id)
    /\ now' = now + 1
    /\ UNCHANGED executions
    /\ UNCHANGED <<payments, addresses, webhook_events>>

NextTransactions ==
    \/ UpdateTransactionStatus
    \/ UpdateBlockchainDetails
    \/ UpdateConfirmations

SpecTransactions == InitTransactions /\ [][NextTransactions]_vars

\* C20: while a Transaction's status is Pending or Confirming, no update
\* operation, update_confirmations included, lowers its confirmations.
C20_ConfirmationsNeverDecrease ==
    [][\A i \in 1..Len(transactions) :
          NonTerminalTransaction(transactions[i]) =>
              transactions'[i].confirmations >= transactions[i].confirmations]_vars

(***************************************************************************)
(* Deposit addresses.                                                      *)
(***************************************************************************)
\* C21: whenever a Payment's status is outside {Pending, Processing}, the
\* CryptoAddress bound to it has is_active = false.
C21_AddressDeactivatedWithPayment ==
    \A i \in 1..Len(addresses) :
        LET p == payments[addresses[i].payment_id]
        IN  p.status \notin {"pending", "processing"} => ~addresses[i].is_active

(***************************************************************************)
(* Signatures: HmacSignature and the checkout-callback verification, on    *)
(* byte strings written as sequences.                                      *)
(***************************************************************************)
\* block size of SHA-256 in bytes (64, scaled)
BlockSize == 2
ZeroByte == "0x00"

\* Hmac::new_from_slice: a key of at most one block is padded with zero
\* bytes to the block size, a longer key is replaced by its digest
HmacKeyBlock(secret) ==
    IF Len(secret) <= BlockSize
    THEN [hashed |-> FALSE,
          block  |-> [i \in 1..BlockSize |->
                         IF i <= Len(secret) THEN secret[i] ELSE ZeroByte]]
    ELSE [hashed |-> TRUE, block |-> secret]

\* HMAC-SHA256 of the message under the key block: collision free, so the
\* digest is modelled by what it was computed from
HmacSha256(message, secret) ==
    [key |-> HmacKeyBlock(secret), message |-> message]

\* HmacSignature::sign
HmacSignature_sign(message, secret) == HmacSha256(message, secret)

\* hex::encode: lower-case digits
hex_encode(bytes) == [valid |-> TRUE, upper |-> FALSE, digits |-> bytes]

\* hex::decode: digits of either case; Err on anything else
hex_decode(text) ==
    IF text.valid THEN [ok |-> TRUE, bytes |-> text.digits]
    ELSE [ok |-> FALSE, bytes |-> text.digits]

\* the same hex string in upper case
UpperCase(text) == [text EXCEPT !.upper = TRUE]

\* a string that is not hex
NotHex(text) == [text EXCEPT !.valid = FALSE]

\* HmacSignature::sign_hex
HmacSignature_sign_hex(message, secret) == hex_encode(HmacSignature_sign(message, secret))

\* mutant: the key is left out of the comparison
HmacSignature_verify_message_only(message, signature, secret) ==
    HmacSha256(message, secret).message = signature.message

\* HmacSignature::verify: mac.verify_slice(signature).is_ok()
HmacSignature_verify(message, signature, secret) ==
    HmacSha256(message, secret) = signature

\* HmacSignature::verify_hex: Err(InvalidSignature) on bad hex
HmacSignature_verify_hex(message, signature_hex, secret) ==
    LET signature == hex_decode(signature_hex)
    IN  IF ~signature.ok THEN "invalid_signature"
        ELSE IF HmacSignature_verify(message, signature.bytes, secret) THEN "true"
        ELSE "false"

\* order_id + "|" + payment_id
JoinedPayload(order_id, payment_id) == order_id \o <<"|">> \o payment_id

\* mutant: the two components are signed without the separator
verify_payment_signature_unseparated(order_id, payment_id, signature, secret) ==
    IF hex_encode(HmacSha256(order_id \o payment_id, secret)) = signature
    THEN "true" ELSE "invalid_signature"

\* RazorpayWebhookVerifier::verify_payment_signature: Ok(true) or
\* Err(InvalidSignature)
verify_payment_signature(order_id, payment_id, signature, secret) ==
    IF hex_encode(HmacSha256(JoinedPayload(order_id, payment_id), secret)) = signature
    THEN "true" ELSE "invalid_signature"

MaxSecretLen == BlockSize + 1
SecretBytes == {ZeroByte, "k"}
Secrets == UNION {[1..n -> SecretBytes] : n \in 0..MaxSecretLen}
\* the secrets signed under: empty, short, one block, with zero bytes, long
SigningSecrets ==
    {<<>>, <<"k">>, <<"k", ZeroByte>>, <<ZeroByte, "k">>, <<"k", "k">>,
     <<"k", ZeroByte, ZeroByte>>}
Messages == {<<>>, <<"m">>}
HexForms == {"signed", "upper", "corrupt"}

\* the signature string as it reaches the verifier
InForm(text, form) ==
    CASE form = "signed" -> text
      [] form = "upper" -> UpperCase(text)
      [] OTHER -> NotHex(text)

ComponentChars == {"a", "|"}
Components == UNION {[1..n -> ComponentChars] : n \in 1..2} \cup {<<"A">>}
\* the pairs a signature is computed for
SignedPairs ==
    {<<(<<"a">>), (<<"A">>)>>, <<(<<"a", "|">>), (<<"a">>)>>, <<(<<"|">>), (<<"|", "|">>)>>}
KeySecret == <<"k">>

SignatureResponse(op, input, result) ==
    [NoResponse EXCEPT !.op = op, !.input = input, !.result = result]

\* sign under secret, verify under secret2
HmacSignVerify ==
    /\ now < MaxOps
    /\ \E message \in Messages, secret \in SigningSecrets, secret2 \in Secrets :
        response' = SignatureResponse("hmac_verify",
            [message |-> message, secret |-> secret, secret2 |-> secret2],
            IF HmacSignature_verify(message, HmacSignature_sign(message, secret), secret2)
            THEN "true" ELSE "false")
    /\ now' = now + 1
    /\ UNCHANGED executions
    /\ UNCHANGED <<payments, transactions, addresses, webhook_events>>

\* sign_hex under secret, verify_hex under secret2
HmacSignVerifyHex ==
    /\ now < MaxOps
    /\ \E message \in Messages, secret \in SigningSecrets, secret2 \in Secrets, form \in HexForms :
        response' = SignatureResponse("hmac_verify_hex",
            [message |-> message, secret |-> secret, secret2 |-> secret2, form |-> form],
            HmacSignature_verify_hex(message,
                InForm(HmacSignature_sign_hex(message, secret), form), secret2))
    /\ now' = now + 1
    /\ UNCHANGED executions
    /\ UNCHANGED <<payments, transactions, addresses, webhook_events>>

\* a signature computed for (signed_order, signed_payment) is presented with
\* (order_id, payment_id)
VerifyPaymentSignature ==
    /\ now < MaxOps
    /\ \E signed \in SignedPairs, order_id \in Components, payment_id \in Components :
       \E form \in {"signed", "upper"} :
        response' = SignatureResponse("verify_payment_signature",
            [signed_order |-> signed[1], signed_payment |-> signed[2],
             order_id |-> order_id, payment_id |-> payment_id, form |-> form],
            verify_payment_signature(order_id, payment_id,
                InForm(hex_encode(HmacSha256(JoinedPayload(signed[1], signed[2]),
                                             KeySecret)), form),
                KeySecret))
    /\ now' = now + 1
    /\ UNCHANGED executions
    /\ UNCHANGED <<payments, transactions, addresses, webhook_events>>

NextSignature ==
    \/ HmacSignVerify
    \/ HmacSignVerifyHex
    \/ VerifyPaymentSignature

SpecSignature == Init /\ [][NextSignature]_vars

\* the answer is to a round trip through sign and verify, raw or hex as signed
IsRoundTrip(r) ==
    \/ r.op = "hmac_verify"
    \/ r.op = "hmac_verify_hex" /\ r.input.form = "signed"

\* C22 as stated: verify(payload, sign(payload, secret), secret2) is true
\* when secret2 = secret and false whenever secret2 # secret, for the raw
\* pair and for the hex pair.
C22_RoundTripOnlyUnderSameSecret ==
    IsRoundTrip(response) =>
        (response.result = "true" <=> response.input.secret2 = response.input.secret)

\* the secret without its trailing zero bytes
RECURSIVE StripTrailingZeros(_)
StripTrailingZeros(secret) ==
    IF secret # <<>> /\ secret[Len(secret)] = ZeroByte
    THEN StripTrailingZeros(SubSeq(secret, 1, Len(secret) - 1))
    ELSE secret

\* the two secrets are the same key to HMAC: equal, or both at most one
\* block long and equal up to trailing zero bytes
SameKey(secret, secret2) ==
    \/ secret = secret2
    \/ /\ Len(secret) <= BlockSize
       /\ Len(secret2) <= BlockSize
       /\ StripTrailingZeros(secret) = StripTrailingZeros(secret2)

\* C22 amended: the round trip is true under the signing secret and under
\* every secret that is the same key to HMAC (both at most one block long and
\* differing only in trailing zero bytes), and false under every other
\* secret; the hex pair behaves the same.
C22_RoundTripUnderSameKey ==
    IsRoundTrip(response) =>
        (response.result = "true"
            <=> SameKey(response.input.secret, response.input.secret2))

\* a signature made under one secret verified under a different secret
C22_Witness ==
    /\ response.op = "hmac_verify_hex"
    /\ response.input.form = "signed"
    /\ response.input.secret = <<"k">>
    /\ response.input.secret2 = <<"k", ZeroByte>>
    /\ response.result = "true"

\* the answer is to a checkout-callback verification of a signature as signed
IsCheckoutVerification(r) ==
    r.op = "verify_payment_signature" /\ r.input.form = "signed"

\* the presented pair is the pair the signature was computed for
SamePair(input) ==
    input.order_id = input.signed_order /\ input.payment_id = input.signed_payment

\* C23 as stated: a signature computed for one (order_id, payment_id) pair
\* verifies for that pair and is rejected for the swapped pair and for any
\* other pair of components.
C23_MatchesOnlyItsPair ==
    IsCheckoutVerification(response) =>
        (response.result = "true" <=> SamePair(response.input))

\* the component does not contain the separator
NoSeparator(component) == \A i \in 1..Len(component) : component[i] # "|"

\* C23 amended: the lower-case hex signature computed for a pair verifies
\* for exactly the pairs whose string order_id + "|" + payment_id is the same
\* string; among components without "|" that is the pair itself, so the
\* swapped pair and a pair differing in case are rejected, while with "|"
\* inside a component another pair can verify; the same signature in
\* upper case is rejected.
C23_MatchesItsJoinedString ==
    /\ IsCheckoutVerification(response) =>
          LET input == response.input
          IN  /\ response.result = "true" <=>
                    JoinedPayload(input.order_id, input.payment_id)
                        = JoinedPayload(input.signed_order, input.signed_payment)
              /\ SamePair(input) => response.result = "true"
              /\ (/\ NoSeparator(input.order_id) /\ NoSeparator(input.payment_id)
                  /\ NoSeparator(input.signed_order) /\ NoSeparator(input.signed_payment)
                  /\ ~SamePair(input))
                    => response.result = "invalid_signature"
    /\ (response.op = "verify_payment_signature" /\ response.input.form = "upper")
          => response.result = "invalid_signature"

\* the signature of a pair was presented with the swapped pair
C23_Witness ==
    /\ IsCheckoutVerification(response)
    /\ response.input.signed_order = <<"a">>
    /\ response.input.signed_payment = <<"A">>
    /\ response.input.order_id = <<"A">>
    /\ response.input.payment_id = <<"a">>
    /\ response.result = "invalid_signature"

(***************************************************************************)
(* verify_crypto_payment before the chain adapter is asked.                *)
(***************************************************************************)
\* chain names stored on a Payment for which no adapter can be selected: EVM
\* chains without an rpc_url, a chain without verification, an unknown name
ChainsWithoutAdapter ==
    ((EvmMethods \ ConfiguredEvmChains) \cup {"bitcoin", "dogecoin"})

\* the rows verify_crypto_payment turns down: row i without a chain, without
\* a deposit address, or with a chain that has no adapter
RowsWithoutAdapter(db, i) ==
    {[db EXCEPT ![i].crypto_chain = NULL],
     [db EXCEPT ![i].crypto_chain = "ethereum", ![i].crypto_to_address = NULL]}
    \cup {[db EXCEPT ![i].crypto_chain = c, ![i].crypto_to_address = "0xdep1"] :
            c \in ChainsWithoutAdapter}

\* C24: verify_crypto_payment returns an error and changes no record when the
\* payment id does not exist, when the Payment carries no chain or no deposit
\* address, or when its chain has no configured or supported adapter.
C24_RejectedBeforeTheAdapter ==
    [][Stepped =>
        /\ (/\ response'.op = "verify_crypto_transaction"
            /\ response'.dispatched
            /\ payments[response'.payment_id].crypto_chain = NULL)
              => /\ response'.result = "payment"
                 /\ UNCHANGED <<payments, transactions, addresses, webhook_events>>
        /\ \A tx_hash \in TxRefs, view \in ChainViews :
            /\ LET r == verify_crypto_payment(payments', Len(payments') + 1, tx_hash,
                                              view, now' + 1)
               IN  ~r.ok /\ r.err = "not_found" /\ r.payments = payments'
            /\ \A i \in 1..Len(payments') :
                 \A db \in RowsWithoutAdapter(payments', i) :
                    LET r == verify_crypto_payment(db, i, tx_hash, view, now' + 1)
                    IN  ~r.ok /\ r.err = "payment" /\ r.payments = db]_vars

\* a verification was asked for a Payment that carries no chain
C24_Witness ==
    /\ response.op = "verify_crypto_transaction"
    /\ response.dispatched
    /\ response.result = "payment"
    /\ payments[response.payment_id].crypto_chain = NULL
    /\ payments[response.payment_id].status = "pending"

(***************************************************************************)
(* Method and currency of a new Payment.                                   *)
(***************************************************************************)
\* the currency of each method: the allow-list of the processor methods and
\* the coin of each chain
CurrencyMatches(request) ==
    CASE request.method \in RazorpayMethods -> request.currency \in {"INR", "USD", "EUR"}
      [] request.method \in {"ethereum", "arbitrum"} -> request.currency = "ETH"
      [] request.method = "polygon" -> request.currency = "MATIC"
      [] request.method = "bsc" -> request.currency = "BNB"
      [] request.method = "solana" -> request.currency = "SOL"
      [] OTHER -> request.currency = "BTC"

\* C25: create_payment rejects a request whose currency does not match its
\* method with a validation error and before anything is persisted: no
\* Payment record is left behind.
C25_ValidatedBeforePersisting ==
    [][(Stepped /\ response'.op = "create_payment" /\ ~CurrencyMatches(response'.input))
          => /\ response'.result = "validation"
             /\ payments' = payments]_vars

(***************************************************************************)
(* Two verifications of one Payment in flight: every await of              *)
(* verify_crypto_transaction, blockchain_webhook and verify_crypto_payment *)
(* that reads or writes the payments table is a step of its own.  The      *)
(* insert into webhook_events is taken together with the lookup that       *)
(* follows it: no other request reads that table.                          *)
(***************************************************************************)
\* what the execution keeps between two awaits
Execution(pc, payment_id, tx_hash, event_id, verification, new_status) ==
    [pc |-> pc, payment_id |-> payment_id, tx_hash |-> tx_hash, event_id |-> event_id,
     verification |-> verification, new_status |-> new_status]

\* verify_crypto_transaction up to its call of verify_crypto_payment:
\* find_by_id and the check of the status
BeginClient ==
    /\ executions["client"].pc = "idle"
    /\ \E request \in [payment_id : 1..Len(payments), tx_hash : TxRefs] :
        LET existing_payment == payments[request.payment_id]
        IN  executions' = [executions EXCEPT !["client"] =
                Execution(IF existing_payment.status \in {"completed", "failed", "cancelled"}
                          THEN "failed" ELSE "loaded",
                          request.payment_id, request.tx_hash, NoEvent, NoVerification,
                          NULL)]
    /\ now' = now + 1
    /\ UNCHANGED <<payments, transactions, addresses, webhook_events, response>>

\* blockchain_webhook up to its call of verify_crypto_payment: the event is
\* stored and the Pending payment of the address looked up
BeginWebhook ==
    /\ executions["webhook"].pc = "idle"
    /\ \E payload \in BlockchainPayloads :
        LET found == PaymentRepository_find_pending_by_crypto_address(payments,
                         payload.to_address, payload.chain)
        IN  /\ webhook_events' = Append(webhook_events,
                    WebhookRepository_create("blockchain", "transaction.received",
                                             NoSignature))
            /\ executions' = [executions EXCEPT !["webhook"] =
                    Execution(IF found = NoPayment THEN "done" ELSE "loaded", found,
                              payload.tx_hash, Len(webhook_events) + 1, NoVerification,
                              NULL)]
    /\ now' = now + 1
    /\ UNCHANGED <<payments, transactions, addresses, response>>

\* the chain never shows fewer confirmations than an earlier query saw
ChainMovedOn(verification) ==
    \A e \in Executions :
        (verification.obtained /\ executions[e].verification.obtained)
            => verification.confirmations >= executions[e].verification.confirmations

\* verify_crypto_payment up to its first write: the Payment is read and the
\* chain adapter asked; Err ends the request
QueryChain(e) ==
    /\ executions[e].pc = "loaded"
    /\ \E view \in ChainViews :
        LET r == verify_crypto_payment(payments, executions[e].payment_id,
                                       executions[e].tx_hash, view, now + 1)
        IN  /\ ChainMovedOn(r.verification)
            /\ executions' = [executions EXCEPT ![e] =
                    [@ EXCEPT !.pc = IF r.ok THEN "verified" ELSE "failed",
                              !.verification = r.verification,
                              !.new_status = r.status]]
    /\ now' = now + 1
    /\ UNCHANGED <<payments, transactions, addresses, webhook_events, response>>

\* verify_crypto_payment: PaymentRepository::update_crypto_details
WriteDetails(e) ==
    /\ executions[e].pc = "verified"
    /\ LET x == executions[e]
           from_address == IF payments[x.payment_id].crypto_chain = "solana" THEN NULL
                            ELSE x.verification.from_address
       IN  payments' = PaymentRepository_update_crypto_details(payments, x.payment_id,
                           x.tx_hash, from_address, NULL, NULL, now + 1)
    /\ executions' = [executions EXCEPT ![e].pc = "details"]
    /\ now' = now + 1
    /\ UNCHANGED <<transactions, addresses, webhook_events, response>>

\* verify_crypto_payment: PaymentRepository::update_status(new_status); the
\* client's handler then publishes and answers
WriteStatus(e) ==
    /\ executions[e].pc = "details"
    /\ LET x == executions[e]
       IN  /\ payments' = PaymentRepository_update_status(payments, x.payment_id,
                                                          x.new_status, now + 1)
           /\ response' = [NoResponse EXCEPT !.op = "verify_crypto_payment",
                                             !.input = e,
                                             !.result = "ok",
                                             !.payment_id = x.payment_id,
                                             !.status = x.new_status,
                                             !.verification = x.verification]
    /\ executions' = [executions EXCEPT ![e].pc =
                          IF e = "webhook" THEN "status" ELSE "done"]
    /\ now' = now + 1
    /\ UNCHANGED <<transactions, addresses, webhook_events>>

\* blockchain_webhook after verify_crypto_payment: the event is Processed
FinishWebhook ==
    /\ executions["webhook"].pc = "status"
    /\ LET x == executions["webhook"]
       IN  webhook_events' = WebhookRepository_update_status(webhook_events, x.event_id,
                                 "processed", TRUE, x.payment_id, NULL, now + 1)
    /\ executions' = [executions EXCEPT !["webhook"].pc = "done"]
    /\ now' = now + 1
    /\ UNCHANGED <<payments, transactions, addresses, response>>

NextConcurrent ==
    \/ BeginClient
    \/ BeginWebhook
    \/ \E e \in Executions : QueryChain(e)
    \/ \E e \in Executions : WriteDetails(e)
    \/ \E e \in Executions : WriteStatus(e)
    \/ FinishWebhook

SpecConcurrent == InitProvisioned /\ [][NextConcurrent]_vars

\* C26: under every interleaving of two verify_crypto_payment executions on
\* the same Payment, once one of them has written Completed the Payment's
\* status is never afterwards Processing.
C26_CompletedStaysCompleted ==
    [][\A i \in 1..Len(payments) :
          payments[i].status = "completed" => payments'[i].status # "processing"]_vars

(***************************************************************************)
(* The EVM adapter on its own: verify_payment applied to what the node     *)
(* answers for a transaction.                                              *)
(***************************************************************************)
\* a transaction that creates a contract has no recipient
ContractCreationView == View(TRUE, TRUE, NULL, TwoCoins, "success", 5)

AdapterViews == ChainViews \cup {ContractCreationView}
ExpectedAddresses == DepositAddresses \cup {OtherAddress}
ExpectedAmounts == {HalfCoin, TwoCoins, TwoCoins + 1}

EvmVerifyPayment ==
    /\ now < MaxOps
    /\ \E tx_hash \in TxRefs, expected_to \in ExpectedAddresses :
       \E expected_amount_wei \in ExpectedAmounts, view \in AdapterViews :
        LET r == EthereumService_verify_payment(tx_hash, expected_to,
                                                expected_amount_wei, view)
        IN  response' = [NoResponse EXCEPT
                !.op = "evm_verify_payment",
                !.input = [tx_hash |-> tx_hash, expected_to |-> expected_to,
                           expected_amount_wei |-> expected_amount_wei, view |-> view],
                !.result = IF r.err = "none" THEN "ok" ELSE r.err,
                !.verification = r.v]
    /\ now' = now + 1
    /\ UNCHANGED <<payments, transactions, addresses, webhook_events, executions>>

NextAdapter == EvmVerifyPayment

SpecAdapter == Init /\ [][NextAdapter]_vars

\* the EVM adapter returned a report
IsEvmReport(r) == r.op = "evm_verify_payment" /\ r.result = "ok"

\* C27: the EVM adapter's verify_payment reports is_valid = true exactly when
\* the receipt exists with success status and the recipient equals
\* expected_to and the value is at least expected_amount; a transaction
\* without a receipt is never valid.
C27_ValidExactlyWhenPaid ==
    IsEvmReport(response) =>
        LET view == response.input.view
        IN  /\ response.verification.is_valid <=>
                  /\ view.receipt = "success"
                  /\ view.tx_to = response.input.expected_to
                  /\ view.tx_value >= response.input.expected_amount_wei
            /\ view.receipt = "none" => ~response.verification.is_valid

\* a transfer of the right value to the right address that is not mined yet
C27_Witness ==
    /\ IsEvmReport(response)
    /\ response.input.view.receipt = "none"
    /\ response.input.view.tx_to = response.input.expected_to
    /\ response.input.view.tx_value >= response.input.expected_amount_wei
    /\ ~response.verification.is_valid

(***************************************************************************)
(* Deliveries of the processor's webhook in flight: razorpay_webhook step  *)
(* by step, for two deliveries that can interleave.  The writes of         *)
(* process_razorpay_webhook are taken together.                            *)
(***************************************************************************)
DeliveryIds == {"d1", "d2"}

NoOutcome == [ok |-> FALSE, err |-> "none", payment_id |-> NoPayment]

\* what razorpay_webhook keeps between two awaits
DeliveryExecution(pc, delivery, event_id, outcome) ==
    [pc |-> pc, delivery |-> delivery, event_id |-> event_id, outcome |-> outcome]

\* a database that holds one processor Payment with its order, Pending
InitDelivery ==
    /\ payments = create_payment(<<>>, <<>>, <<>>,
                      [amount |-> HalfCoin, currency |-> "INR", method |-> "card"],
                      [ok |-> TRUE, id |-> OrderIds[1]], 1).payments
    /\ transactions = <<>>
    /\ addresses = <<>>
    /\ webhook_events = <<>>
    /\ now = 1
    /\ response = NoResponse
    /\ executions = [d \in DeliveryIds |->
                        DeliveryExecution("idle", NULL, NoEvent, NoOutcome)]

\* the answer of razorpay_webhook to the sender
DeliveryResponse(d, result, event_id, payment_id) ==
    [NoResponse EXCEPT !.op = "razorpay_webhook", !.input = d, !.result = result,
                       !.event_id = event_id, !.payment_id = payment_id]

\* razorpay_webhook up to WebhookRepository::create: a delivery without the
\* signature header or with a body that is not JSON is turned down
ReceiveDelivery(d) ==
    /\ executions[d].pc = "idle"
    /\ \E delivery \in Deliveries :
        LET event_type == IF delivery.body.event # NULL THEN delivery.body.event
                          ELSE "unknown"
        IN  IF ~delivery.has_signature \/ ~delivery.body.json_ok
            THEN /\ executions' = [executions EXCEPT ![d] =
                        DeliveryExecution("done", delivery, NoEvent, NoOutcome)]
                 /\ response' = DeliveryResponse(d, "bad_request", NoEvent, NoPayment)
                 /\ UNCHANGED webhook_events
            ELSE /\ webhook_events' = Append(webhook_events,
                        WebhookRepository_create("razorpay", event_type,
                                                 delivery.signature))
                 /\ executions' = [executions EXCEPT ![d] =
                        DeliveryExecution("stored", delivery, Len(webhook_events) + 1,
                                          NoOutcome)]
                 /\ UNCHANGED response
    /\ now' = now + 1
    /\ UNCHANGED <<payments, transactions, addresses>>

\* razorpay_webhook: the signature is checked; a bad one marks the event
\* Failed, a good one starts process_razorpay_webhook
DispatchDelivery(d) ==
    /\ executions[d].pc = "stored"
    /\ LET x == executions[d]
           signature_valid == verify_webhook_signature(x.delivery.body,
                                  x.delivery.signature, WebhookSecret)
           r == process_razorpay_webhook(payments, x.delivery.body, now + 1)
       IN  IF ~signature_valid
           THEN /\ webhook_events' = WebhookRepository_update_status(webhook_events,
                        x.event_id, "failed", FALSE, NoPayment, "Invalid signature",
                        now + 1)
                /\ executions' = [executions EXCEPT ![d].pc = "done"]
                /\ response' = DeliveryResponse(d, "unauthorized", x.event_id, NoPayment)
                /\ UNCHANGED payments
           ELSE /\ payments' = r.payments
                /\ executions' = [executions EXCEPT ![d] =
                        [@ EXCEPT !.pc = "dispatched",
                                  !.outcome = [ok |-> r.ok, err |-> r.err,
                                               payment_id |-> r.payment_id]]]
                /\ UNCHANGED <<webhook_events, response>>
    /\ now' = now + 1
    /\ UNCHANGED <<transactions, addresses>>

\* razorpay_webhook: the outcome of the dispatch is written on the event
RecordOutcome(d) ==
    /\ executions[d].pc = "dispatched"
    /\ LET x == executions[d]
       IN  IF x.outcome.ok
           THEN /\ webhook_events' = WebhookRepository_update_status(webhook_events,
                        x.event_id, "processed", TRUE, x.outcome.payment_id, NULL,
                        now + 1)
                /\ response' = DeliveryResponse(d, "ok", x.event_id, x.outcome.payment_id)
           ELSE /\ webhook_events' = WebhookRepository_update_status(webhook_events,
                        x.event_id, "failed", TRUE, NoPayment, x.outcome.err, now + 1)
                /\ response' = DeliveryResponse(d, "internal", x.event_id, NoPayment)
    /\ executions' = [executions EXCEPT ![d].pc = "done"]
    /\ now' = now + 1
    /\ UNCHANGED <<payments, transactions, addresses>>

NextDelivery ==
    \/ \E d \in DeliveryIds : ReceiveDelivery(d)
    \/ \E d \in DeliveryIds : DispatchDelivery(d)
    \/ \E d \in DeliveryIds : RecordOutcome(d)

SpecDelivery == InitDelivery /\ [][NextDelivery]_vars

\* the record carries a processed_at
Terminal(event) == event.processed_at # NoTime

\* C28: once a WebhookEvent's processed_at is set (status Processed or
\* Failed) no later operation changes its status, signature_verified,
\* payment_id or processed_at, and a record that has left Received never
\* returns to it.
C28_ProcessedEventIsTerminal ==
    [][\A i \in 1..Len(webhook_events) :
          /\ Terminal(webhook_events[i]) =>
                /\ webhook_events[i].status \in {"processed", "failed"}
                /\ webhook_events'[i].status = webhook_events[i].status
                /\ webhook_events'[i].signature_verified
                      = webhook_events[i].signature_verified
                /\ webhook_events'[i].payment_id = webhook_events[i].payment_id
                /\ webhook_events'[i].processed_at = webhook_events[i].processed_at
          /\ webhook_events[i].status # "received" =>
                webhook_events'[i].status # "received"]_vars

\* a second delivery was recorded after the first one's record was terminal
C28_Witness ==
    /\ Len(webhook_events) = 2
    /\ webhook_events[1].status = "processed"
    /\ webhook_events[2].status = "failed"
    /\ webhook_events[1].processed_at < webhook_events[2].processed_at
    /\ \A d \in DeliveryIds : executions[d].pc = "done"

\* C29: for a delivery whose signature check succeeds the record's status
\* goes Received, Processing, then Processed or Failed: a verified record
\* enters Processed or Failed from Processing.
C29_ProcessingWhileDispatched ==
    [][\A i \in 1..Len(webhook_events) :
          (/\ webhook_events'[i].status # webhook_events[i].status
           /\ webhook_events'[i].status \in {"processed", "failed"}
           /\ webhook_events'[i].signature_verified)
              => webhook_events[i].status = "processing"]_vars

(***************************************************************************)
(* What a verification leaves alone.                                       *)
(***************************************************************************)
\* C30: verify_crypto_payment modifies only the Payment it verifies: no
\* Transaction, no CryptoAddress and no other Payment changes, so a Payment
\* can be Completed while its Transaction is still Pending with
\* confirmations = 0.
C30_VerificationWritesOnlyThePayment ==
    [][(Stepped /\ IsVerification(response')) =>
          /\ transactions' = transactions
          /\ addresses' = addresses
          /\ Len(payments') = Len(payments)
          /\ \A i \in 1..Len(payments) :
                i # response'.payment_id => payments'[i] = payments[i]
          /\ \A i \in 1..Len(transactions') :
                (/\ transactions'[i].payment_id = response'.payment_id
                 /\ payments[response'.payment_id].status = "pending")
                    => /\ transactions'[i].status = "pending"
                       /\ transactions'[i].confirmations = 0]_vars

\* a Payment is Completed and its Transaction still Pending without
\* confirmations
C30_Witness ==
    /\ ValidProof(response)
    /\ payments[response.payment_id].status = "completed"
    /\ \E i \in 1..Len(transactions) :
          /\ transactions[i].payment_id = response.payment_id
          /\ transactions[i].status = "pending"
          /\ transactions[i].confirmations = 0
          /\ transactions[i].tx_hash = NULL

(***************************************************************************)
(* Pushed transactions and Payments already in Processing.                 *)
(***************************************************************************)
\* what the chain monitor pushes for the deposit of Payment p
PushedFor(p) ==
    [chain |-> p.crypto_chain, tx_hash |-> "0xT1", to_address |-> p.crypto_to_address]

\* a block deep enough for the confirmation policy of Payment p
DeepEnough(p, b) ==
    saturating_sub(CurrentBlock, b) >= RequiredConfirmations(p.crypto_chain, p.amount)

\* C31: for a crypto Payment in Processing, a blockchain webhook for the same
\* deposit address and chain that arrives when the transaction has at least
\* the required confirmations makes the Payment Completed.
C31_WebhookCompletesProcessing ==
    \A i \in DOMAIN payments :
        payments[i].status = "processing" =>
            \A b \in BlockNumbers :
                DeepEnough(payments[i], b) =>
                    blockchain_webhook(payments, webhook_events, PushedFor(payments[i]),
                        GoodView(payments[i], b), 1, now + 1).payments[i].status
                            = "completed"

(***************************************************************************)
(* Processor events for a Payment that is already Completed.               *)
(***************************************************************************)
\* C32: a validly signed payment.authorized or payment.failed webhook for a
\* Payment that is already Completed does not change that Payment's status
\* to Processing or Failed.
C32_CompletedAbsorbsLateEvents ==
    [][(/\ Stepped
        /\ response'.op = "razorpay_webhook"
        /\ response'.dispatched
        /\ response'.input.body.event \in {"payment.authorized", "payment.failed"}) =>
          \A i \in DOMAIN payments :
              payments[i].status = "completed" =>
                  payments'[i].status \notin {"processing", "failed"}]_vars

(***************************************************************************)
(* signature_verified of a recorded delivery.                              *)
(***************************************************************************)
\* C33: a WebhookEvent has signature_verified = true only if a signature
\* came with the delivery and matched; a delivery without a signature (a
\* blockchain webhook) is never recorded with signature_verified = true.
C33_VerifiedOnlyWithSignature ==
    \A i \in DOMAIN webhook_events :
        webhook_events[i].signature_verified =>
            /\ webhook_events[i].signature # NoSignature
            /\ webhook_events[i].source # "blockchain"

(***************************************************************************)
(* What a proof must transfer.                                             *)
(***************************************************************************)
\* the transaction the chain shows pays Payment p in full
PaysInFull(p, view) ==
    /\ view.tx_found
    /\ view.tx_to = p.crypto_to_address
    /\ view.tx_value >= p.amount

\* C34: verify_crypto_payment advances a Payment to Processing or Completed
\* only if the proof transaction transfers at least payment.amount to the
\* Payment's deposit address, for Solana payments as for EVM payments.
C34_AdvancesOnlyWhenPaidInFull ==
    \A i \in DOMAIN payments, view \in ChainViews :
        LET r == verify_crypto_payment(payments, i, "0xT1", view, now + 1)
        IN  (r.ok /\ r.payments[i].status \in {"processing", "completed"})
                => PaysInFull(payments[i], view)

(***************************************************************************)
(* A database that holds two crypto Payments, each with its own deposit    *)
(* address; the first is stored in any status of PaymentStatus, the        *)
(* second is Pending.                                                      *)
(***************************************************************************)
SecondDepositAddress == "0xdep2"

\* the rows of the i-th stored Payment p
StoredTransaction(p, i) == [ProvisionedTransaction(p) EXCEPT !.payment_id = i]
StoredAddress(p, i) == [ProvisionedAddress(p) EXCEPT !.payment_id = i]

InitStored ==
    /\ payments \in
          {<<[p EXCEPT !.status = st],
             [q EXCEPT !.crypto_to_address = SecondDepositAddress]>> :
                p \in ProvisionedPayments, q \in ProvisionedPayments, st \in PaymentStatus}
    /\ transactions = <<StoredTransaction(payments[1], 1), StoredTransaction(payments[2], 2)>>
    /\ addresses = <<StoredAddress(payments[1], 1), StoredAddress(payments[2], 2)>>
    /\ webhook_events = <<>>
    /\ now = 1
    /\ response = NoResponse
    /\ executions = NoExecutions

NextStored ==
    \/ VerifyCryptoTransaction
    \/ BlockchainWebhook

SpecStored == InitStored /\ [][NextStored]_vars

\* C35: a transaction reference advances at most one Payment: once it is
\* recorded on one Payment, submitting it for a different Payment does not
\* move that other Payment to Processing or Completed.
C35_ReferenceAdvancesOnePayment ==
    [][(/\ Stepped
        /\ IsVerification(response')
        /\ \E j \in DOMAIN payments :
              /\ j # response'.payment_id
              /\ payments[j].crypto_tx_hash = response'.input.tx_hash) =>
          /\ response'.result # "ok"
          /\ payments'[response'.payment_id].status = payments[response'.payment_id].status]_vars

\* the statuses from which a Payment does not move on
TerminalPaymentStatus == {"completed", "failed", "cancelled", "refunded", "expired"}

\* C36: verify_crypto_transaction never changes a Payment whose status is
\* Completed, Failed, Cancelled, Refunded or Expired: it returns an error and
\* the status stays as it was.
C36_TerminalPaymentRejected ==
    [][(/\ Stepped
        /\ response'.op = "verify_crypto_transaction"
        /\ response'.payment_id \in DOMAIN payments
        /\ payments[response'.payment_id].status \in TerminalPaymentStatus) =>
          /\ response'.result # "ok"
          /\ payments' = payments]_vars

(***************************************************************************)
(* Checkout verification (src/src/api/handlers/razorpay.rs)                *)
(***************************************************************************)
\* the bytes of an identifier: the model's identifiers are single tokens
AsBytes(id) == <<id>>

\* ids that fail VerifyPaymentRequest's length validation
MalformedOrderIds == {"o"}

\* mutant: only a Completed Payment is refused, as in verify_crypto_transaction
VerifiableStatus_not_completed(status) == status # "completed"

\* `payment.status != Pending && payment.status != Processing` is refused
VerifiableStatus(status) == status \in {"pending", "processing"}

\* verify_payment: the whole handler
verify_payment(db, request, receivers, t) ==
    LET checked == verify_payment_signature(AsBytes(request.razorpay_order_id),
                       AsBytes(request.razorpay_payment_id), request.razorpay_signature,
                       KeySecret)
        found == PaymentRepository_find_by_razorpay_order_id(db, request.razorpay_order_id)
        db1 == PaymentRepository_update_razorpay_details(db, found,
                   request.razorpay_order_id, request.razorpay_payment_id,
                   request.razorpay_signature, t)
        answer(result, pid, status, bc) ==
            Published(Response("verify_payment", request, result, pid, status, NoEvent,
                               FALSE, NoVerification, bc, NoCreation), receivers)
    IN  IF request.razorpay_order_id \in MalformedOrderIds
        THEN [payments |-> db, response |-> answer("validation", NoPayment, NULL, NoPayment)]
        ELSE IF checked # "true"
        THEN [payments |-> db,
              response |-> answer("invalid_signature", NoPayment, NULL, NoPayment)]
        ELSE IF found = NoPayment
        THEN [payments |-> db, response |-> answer("not_found", NoPayment, NULL, NoPayment)]
        ELSE IF ~VerifiableStatus(db[found].status)
        THEN [payments |-> db, response |-> answer("payment", found, NULL, NoPayment)]
        ELSE [payments |-> PaymentRepository_update_status(db1, found, "completed", t),
              response |-> answer("ok", found, "completed",
                                  IF WsBroadcasterPresent THEN found ELSE NoPayment)]

\* the signature the processor hands the client for (order_id, payment_id)
CheckoutSignature(order_id, payment_id) ==
    HmacSignature_sign_hex(JoinedPayload(AsBytes(order_id), AsBytes(payment_id)), KeySecret)

\* requests a client can send: the signature of the pair, the signature of
\* another pair, and a signature made with another secret
VerifyPaymentRequests ==
    {[razorpay_order_id |-> o, razorpay_payment_id |-> p, razorpay_signature |-> s] :
        o \in {OrderIds[1], UnknownOrderId} \cup MalformedOrderIds,
        p \in RazorpayPaymentIds \cup {"pay_B"},
        s \in {CheckoutSignature(OrderIds[1], "pay_A"),
               CheckoutSignature(UnknownOrderId, "pay_B"),
               CheckoutSignature("o", "pay_A"),
               HmacSignature_sign_hex(JoinedPayload(AsBytes(OrderIds[1]), AsBytes("pay_A")),
                                      <<"k", "k">>)}}

VerifyPayment ==
    /\ now < MaxOps
    /\ \E request \in VerifyPaymentRequests, receivers \in Receivers :
        LET r == verify_payment(payments, request, receivers, now + 1)
        IN  /\ payments' = r.payments
            /\ response' = r.response
    /\ now' = now + 1
    /\ UNCHANGED executions
    /\ UNCHANGED <<addresses, transactions, webhook_events>>

\* a card Payment has been created and its order handed to the client
InitCheckout ==
    /\ payments = create_payment(<<>>, <<>>, <<>>,
                      [amount |-> HalfCoin, currency |-> "INR", method |-> "card"],
                      [ok |-> TRUE, id |-> OrderIds[1]], 1).payments
    /\ transactions = <<>>
    /\ addresses = <<>>
    /\ webhook_events = <<>>
    /\ now = 1
    /\ response = NoResponse
    /\ executions = NoExecutions

NextCheckout ==
    \/ VerifyPayment
    \/ RazorpayWebhook

SpecCheckout == InitCheckout /\ [][NextCheckout]_vars

\* C37: verify_payment changes a Payment only when the signature is valid for
\* (order_id, payment_id) and the Payment found by order id is Pending or
\* Processing, and then sets its status to Completed; with an invalid
\* signature, an unknown order id or a Payment in any other status it
\* returns an error and no Payment changes.
C37_CheckoutCompletesOnlyVerified ==
    [][(Stepped /\ response'.op = "verify_payment") =>
          LET request == response'.input
              found == PaymentRepository_find_by_razorpay_order_id(payments,
                           request.razorpay_order_id)
              signed == request.razorpay_signature =
                            CheckoutSignature(request.razorpay_order_id,
                                              request.razorpay_payment_id)
          IN  IF /\ signed
                 /\ request.razorpay_order_id \notin MalformedOrderIds
                 /\ found # NoPayment
                 /\ payments[found].status \in {"pending", "processing"}
              THEN /\ response'.result = "ok"
                   /\ payments'[found].status = "completed"
                   /\ \A i \in DOMAIN payments : i # found => payments'[i] = payments[i]
              ELSE /\ response'.result # "ok"
                   /\ payments' = payments]_vars

\* a Payment put in Processing by payment.authorized was completed by a
\* verified checkout
C37_Witness ==
    /\ response.op = "verify_payment"
    /\ response.result = "ok"
    /\ now = 3
    /\ payments[response.payment_id].status = "completed"
    /\ payments[response.payment_id].razorpay_signature =
           CheckoutSignature(OrderIds[1], "pay_A")
    /\ \E i \in DOMAIN webhook_events : webhook_events[i].status = "processed"

(***************************************************************************)
(* Refunds (process_refund, src/src/api/handlers/razorpay.rs).  The handler *)
(* reads the Payment, awaits the processor's refund API and then writes    *)
(* the status; two calls interleave at the awaits.                         *)
(***************************************************************************)
RefundCalls == {"r1", "r2"}

\* RefundRequest.amount = None
NoAmount == 0

\* what a process_refund call keeps between two awaits
RefundExecution(pc, payment_id, amount, issued) ==
    [pc |-> pc, payment_id |-> payment_id, amount |-> amount, issued |-> issued]

\* a card Payment after create_order, and the same after payment.captured
InitRefund ==
    /\ payments \in
          LET created == create_payment(<<>>, <<>>, <<>>,
                             [amount |-> HalfCoin, currency |-> "INR", method |-> "card"],
                             [ok |-> TRUE, id |-> OrderIds[1]], 1).payments
          IN  {created,
               process_razorpay_webhook(created,
                   Body("payment.captured", TRUE, TRUE, OrderIds[1]), 2).payments}
    /\ transactions = <<>>
    /\ addresses = <<>>
    /\ webhook_events = <<>>
    /\ now = 2
    /\ response = NoResponse
    /\ executions = [r \in RefundCalls |-> RefundExecution("idle", NoPayment, NoAmount, FALSE)]

\* process_refund up to the call of the processor: find_by_id, the check of
\* the status, of the amount and of razorpay_payment_id
LoadRefund(r) ==
    /\ executions[r].pc = "idle"
    /\ \E payment_id \in 1..(Len(payments) + 1), amount \in {NoAmount, HalfCoin, TwoCoins} :
        LET refused ==
                IF payment_id \notin DOMAIN payments THEN TRUE
                ELSE IF payments[payment_id].status # "completed" THEN TRUE
                ELSE IF amount # NoAmount /\ amount > payments[payment_id].amount THEN TRUE
                ELSE payments[payment_id].razorpay_payment_id = NULL
        IN  executions' = [executions EXCEPT ![r] =
                RefundExecution(IF refused THEN "failed" ELSE "checked", payment_id, amount,
                                FALSE)]
    /\ now' = now + 1
    /\ UNCHANGED <<payments, transactions, addresses, webhook_events, response>>

\* client().refund_payment(...).await?: the refund is issued, or the API errs
SendRefund(r) ==
    /\ executions[r].pc = "checked"
    /\ \E api_ok \in BOOLEAN :
        executions' = [executions EXCEPT ![r] =
            [@ EXCEPT !.pc = IF api_ok THEN "sent" ELSE "failed", !.issued = api_ok]]
    /\ now' = now + 1
    /\ UNCHANGED <<payments, transactions, addresses, webhook_events, response>>

\* PaymentRepository::update_status(payment.id, Refunded) and the answer
WriteRefunded(r) ==
    /\ executions[r].pc = "sent"
    /\ payments' = PaymentRepository_update_status(payments, executions[r].payment_id,
                                                   "refunded", now + 1)
    /\ response' = [NoResponse EXCEPT !.op = "process_refund", !.input = r,
                                      !.result = "ok",
                                      !.payment_id = executions[r].payment_id,
                                      !.status = "refunded"]
    /\ executions' = [executions EXCEPT ![r].pc = "done"]
    /\ now' = now + 1
    /\ UNCHANGED <<transactions, addresses, webhook_events>>

NextRefund ==
    \/ \E r \in RefundCalls : LoadRefund(r)
    \/ \E r \in RefundCalls : SendRefund(r)
    \/ \E r \in RefundCalls : WriteRefunded(r)

SpecRefund == InitRefund /\ [][NextRefund]_vars

\* the refunds the processor was asked for, for Payment i
RefundsIssued(i) ==
    {r \in RefundCalls : executions[r].issued /\ executions[r].payment_id = i}

\* C38: under every interleaving of concurrent process_refund calls at most
\* one refund is sent to the processor for each Payment.
C38_AtMostOneRefund ==
    \A i \in DOMAIN payments : Cardinality(RefundsIssued(i)) <= 1

(***************************************************************************)
(* What create_payment hands back to the client.                           *)
(***************************************************************************)
\* C39: the result of create_payment for a processor method never contains
\* the webhook secret: its razorpay_key_id is the configured public key id.
C39_ResultCarriesKeyId ==
    (/\ response.op = "create_payment"
     /\ response.input.method \in RazorpayMethods
     /\ response.creation.ok) =>
        /\ response.creation.razorpay_key_id = KeyId
        /\ response.creation.razorpay_key_id # WebhookSecret

====
